---- MODULE Spec2Model ----
(***************************************************************************)
(* A model of the OpenColorIO binding layer, intern/opencolorio/           *)
(* ocio_impl.cc: the default display / default view workarounds with their *)
(* process-wide caches, the display processor chain, the XYZ to RGB matrix *)
(* lookup and the numeric classification of a colour space.                *)
(*                                                                         *)
(* C strings are sequences of one-character strings; NUL is the character  *)
(* that ends a C string.  Each part of the layer has its own specification *)
(* (SpecDisplay, SpecView, ...); a specification leaves the variables of   *)
(* the other parts at their initial values.                                *)
(***************************************************************************)
EXTENDS Integers, Sequences, FiniteSets, TLC

VARIABLES
    \* ---- configGetDefaultDisplay ----
    active_display,   \* static std::string active_display (line 227)
    displayMutex,     \* static std::mutex mutex (line 231): 0 or the owner
    dpc,              \* each thread's position in configGetDefaultDisplay
    dcfg,             \* each call's configuration: its active-displays list
    denv,             \* each call's getenv("OCIO_ACTIVE_DISPLAYS") != NULL
    dret,             \* each call's result
    displayPool,      \* the configurations the process uses
    displayCalls,     \* calls started so far
    displayWrites,    \* history: assignments to active_display so far
    cachedFrom,       \* history: the list active_display was assigned from
    \* ---- configGetDefaultView ----
    default_display_views, \* static map<string, string> (line 329)
    viewMutex,        \* static std::mutex mutex (line 330): 0 or the owner
    vpc,              \* each thread's position in configGetDefaultView
    vdisplay,         \* each call's display argument
    venv,             \* each call's getenv("OCIO_ACTIVE_VIEWS") != NULL
    vfound,           \* each call's view found by the scan (the loop variable)
    vret,             \* each call's result
    viewCfg,          \* the configuration of the process
    viewSequential,   \* whether the process makes its calls one after another
    viewCalls,        \* calls started so far
    viewScans,        \* history: scans of the active views made, per key
    \* ---- createDisplayProcessor ----
    cpc,              \* the position of the call in createDisplayProcessor
    cargs,            \* the arguments of the call
    cinput,           \* the local variable input: the working colour space
    group,            \* the GroupTransform: the transforms appended so far
    liveHandles,      \* the guarded handles allocated and not yet deleted
    cret,             \* the result of the call
    keptHandles,      \* history: handles returned to callers and not released
    chainCalls,       \* calls started so far
    \* ---- the boundary functions and the library's failures ----
    bpc,              \* the position of the call in a boundary function
    bop,              \* the boundary function called
    bfail,            \* which of its library calls throws (0: none)
    bstep,            \* the library call it is about to make
    bret,             \* what the call returned
    breported,        \* whether OCIO_reportException was called
    \* ---- configGetXYZtoRGB ----
    xpc,              \* the position of the call in configGetXYZtoRGB
    xcfg,             \* the configuration: its roles and colour spaces
    xcolorspace,      \* the colorspace argument of to_scene_linear_matrix
    xyz_to_rgb,       \* the matrix the call fills
    \* ---- colorSpaceIsBuiltin ----
    kpc,              \* the position of the call in colorSpaceIsBuiltin
    kcs,              \* the colour space: its conversion to scene linear
    ki,               \* i, the index of the loop
    is_scene_linear,  \* the first flag of the result
    is_srgb,          \* the second flag of the result
    evaluated,        \* the number of intensities sampled in this call
    \* ---- colorSpaceIsInvertible ----
    ipc,              \* the position of the call in colorSpaceIsInvertible
    ics,              \* the colour space: its family, data flag and transform
    iret,             \* the int returned, -1 before the return
    \* ---- processorApplyRGBA_predivide ----
    apc,              \* the position of the call in processorApplyRGBA_predivide
    pixel,            \* float pixel[4], changed in place
    pixel_in,         \* the pixel as the caller passed it
    aprocessor,       \* the transform of the CPU processor
    alpha,            \* the local alpha
    inv_alpha,        \* the local inv_alpha
    \* ---- the handle-returning operations ----
    hpc,              \* the position of the call in the operation
    hop,              \* the operation called
    hlibrary,         \* what the library will do in this call
    handles,          \* per kind, the number of guarded handles allocated and not freed
    held,             \* per kind, the number of non-NULL results the callers hold
    hret,             \* what the call returned: "handle", "NULL" or "" before it
    hallocs,          \* the number of OBJECT_GUARDED_NEW in this call
    hfrees            \* the number of OBJECT_GUARDED_DELETE in this call

displayVars == <<active_display, displayMutex, dpc, dcfg, denv, dret,
                 displayPool, displayCalls, displayWrites, cachedFrom>>

viewVars == <<default_display_views, viewMutex, vpc, vdisplay, venv, vfound, vret,
              viewCfg, viewSequential, viewCalls, viewScans>>

chainVars == <<cpc, cargs, cinput, group, liveHandles, cret, keptHandles, chainCalls>>

boundaryVars == <<bpc, bop, bfail, bstep, bret, breported>>

xyzVars == <<xpc, xcfg, xcolorspace, xyz_to_rgb>>

classifyVars == <<kpc, kcs, ki, is_scene_linear, is_srgb, evaluated>>

invertibleVars == <<ipc, ics, iret>>

predivideVars == <<apc, pixel, pixel_in, aprocessor, alpha, inv_alpha>>

handleVars == <<hpc, hop, hlibrary, handles, held, hret, hallocs, hfrees>>

vars == <<displayVars, viewVars, chainVars, boundaryVars, xyzVars, classifyVars,
          invertibleVars, predivideVars, handleVars>>

\* What the steps of one part leave alone: the variables of the other parts.
DisplayFrame == UNCHANGED <<viewVars, chainVars, boundaryVars, xyzVars, classifyVars,
        invertibleVars, predivideVars, handleVars>>
ViewFrame == UNCHANGED <<displayVars, chainVars, boundaryVars, xyzVars, classifyVars,
        invertibleVars, predivideVars, handleVars>>
ChainFrame == UNCHANGED <<displayVars, viewVars, boundaryVars, xyzVars, classifyVars,
        invertibleVars, predivideVars, handleVars>>
BoundaryFrame == UNCHANGED <<displayVars, viewVars, chainVars, xyzVars, classifyVars,
        invertibleVars, predivideVars, handleVars>>
ClassifyFrame == UNCHANGED <<displayVars, viewVars, chainVars, boundaryVars, xyzVars,
        invertibleVars, predivideVars, handleVars>>
InvertibleFrame == UNCHANGED <<displayVars, viewVars, chainVars, boundaryVars, xyzVars,
        classifyVars, predivideVars, handleVars>>
PredivideFrame == UNCHANGED <<displayVars, viewVars, chainVars, boundaryVars, xyzVars,
        classifyVars, invertibleVars, handleVars>>
HandleFrame == UNCHANGED <<displayVars, viewVars, chainVars, boundaryVars, xyzVars,
        classifyVars, invertibleVars, predivideVars>>
XyzFrame == UNCHANGED <<displayVars, viewVars, chainVars, boundaryVars, classifyVars,
        invertibleVars, predivideVars, handleVars>>

----------------------------------------------------------------------------
(* Bounds *)

NThreads == 2
MaxCalls == 2
MaxLiveHandles == 2

Threads == 1..NThreads

----------------------------------------------------------------------------
(* C strings *)

NUL == "NUL"
NULL == <<"(NULL)">>
None == <<"(none)">>

\* strchr: the position of the first ch in s, 0 when there is none.
StrChr(s, ch) ==
    IF \E i \in 1..Len(s) : s[i] = ch
    THEN CHOOSE i \in 1..Len(s) : s[i] = ch /\ \A j \in 1..(i - 1) : s[j] # ch
    ELSE 0

\* What a reader of a const char * sees: the characters before the first NUL.
CStr(s) ==
    LET n == StrChr(s, NUL) IN IF n = 0 THEN s ELSE SubSeq(s, 1, n - 1)

\* The library's encoding of a list of names: the names joined by commas.
RECURSIVE JoinList(_)
JoinList(list) ==
    IF list = <<>> THEN <<>>
    ELSE IF Len(list) = 1 THEN list[1]
    ELSE list[1] \o <<",">> \o JoinList(Tail(list))

\* Idle threads are alike: the next call is made by the first of them.
FirstIdle(pc, t) == pc[t] = "idle" /\ \A u \in Threads : u < t => pc[u] # "idle"

----------------------------------------------------------------------------
(* The mutex of a static cache *)

MutexAlwaysAvailable(m) == TRUE

\* std::mutex::lock returns once no thread owns the mutex.
MutexAvailable(m) == m = 0

----------------------------------------------------------------------------
(* configGetDefaultDisplay *)

\* A configuration, as far as this function reads it: its active displays.
\* The lists of the model: none, one entry, two entries in and out of
\* alphabetical order, three entries.
DisplayConfigs ==
    {<<>>,
     <<(<<"b">>)>>,
     <<(<<"b">>), (<<"a">>)>>,
     <<(<<"a">>), (<<"b">>)>>,
     <<(<<"c", "a">>), (<<"b">>), (<<"a">>)>>}

\* Config::getActiveDisplays()
getActiveDisplays(cfg) == JoinList(cfg)

\* Config::getDefaultDisplay(): the library's own choice, opaque here.
LibraryDefaultDisplay == <<"(library default display)">>

KeepSeparator(s, pos) == s

\* active_display[separator_pos - active_displays] = '\0'
TruncateAt(s, pos) == [s EXCEPT ![pos] = NUL]

DisplayInit ==
    /\ active_display = <<>>
    /\ displayMutex = 0
    /\ dpc = [t \in Threads |-> "idle"]
    /\ dcfg = [t \in Threads |-> <<>>]
    /\ denv = [t \in Threads |-> FALSE]
    /\ dret = [t \in Threads |-> None]
    /\ displayCalls = 0
    /\ displayWrites = 0
    /\ cachedFrom = <<>>

DisplayIdle ==
    /\ DisplayInit
    /\ displayPool = {}

\* Lines 217-226: the call, the environment check, the list, the separator.
DisplayCall(t) ==
    /\ FirstIdle(dpc, t)
    /\ displayCalls < MaxCalls
    /\ \E cfg \in displayPool, env \in BOOLEAN :
        /\ dcfg' = [dcfg EXCEPT ![t] = cfg]
        /\ denv' = [denv EXCEPT ![t] = env]
        /\ LET active_displays == getActiveDisplays(cfg) IN
           IF env \/ active_displays = <<>>
           THEN /\ dpc' = [dpc EXCEPT ![t] = "library"]
                /\ dret' = dret
           ELSE IF StrChr(active_displays, ",") = 0
           THEN /\ dpc' = [dpc EXCEPT ![t] = "done"]
                /\ dret' = [dret EXCEPT ![t] = CStr(active_displays)]
           ELSE /\ dpc' = [dpc EXCEPT ![t] = "lock"]
                /\ dret' = dret
    /\ displayCalls' = displayCalls + 1
    /\ UNCHANGED <<active_display, displayMutex, displayPool, displayWrites, cachedFrom>>
    /\ DisplayFrame

\* Line 232: mutex.lock()
DisplayLock(t) ==
    /\ dpc[t] = "lock"
    /\ MutexAvailable(displayMutex)
    /\ displayMutex' = t
    /\ dpc' = [dpc EXCEPT ![t] = "check"]
    /\ UNCHANGED <<active_display, dcfg, denv, dret, displayPool, displayCalls,
                   displayWrites, cachedFrom>>
    /\ DisplayFrame

\* Line 233: if (active_display.empty())
DisplayCheck(t) ==
    /\ dpc[t] = "check"
    /\ dpc' = [dpc EXCEPT ![t] = IF Len(active_display) = 0 THEN "assign" ELSE "unlock"]
    /\ UNCHANGED <<active_display, displayMutex, dcfg, denv, dret, displayPool,
                   displayCalls, displayWrites, cachedFrom>>
    /\ DisplayFrame

\* Line 234: active_display = active_displays
DisplayAssign(t) ==
    /\ dpc[t] = "assign"
    /\ active_display' = getActiveDisplays(dcfg[t])
    /\ displayWrites' = displayWrites + 1
    /\ cachedFrom' = dcfg[t]
    /\ dpc' = [dpc EXCEPT ![t] = "truncate"]
    /\ UNCHANGED <<displayMutex, dcfg, denv, dret, displayPool, displayCalls>>
    /\ DisplayFrame

\* Line 235: the separator found in this call's own list is overwritten.
DisplayTruncate(t) ==
    /\ dpc[t] = "truncate"
    /\ LET pos == StrChr(getActiveDisplays(dcfg[t]), ",") IN
       active_display' = IF pos \in 1..Len(active_display)
                         THEN TruncateAt(active_display, pos)
                         ELSE active_display
    /\ dpc' = [dpc EXCEPT ![t] = "unlock"]
    /\ UNCHANGED <<displayMutex, dcfg, denv, dret, displayPool, displayCalls,
                   displayWrites, cachedFrom>>
    /\ DisplayFrame

\* Line 237: mutex.unlock()
DisplayUnlock(t) ==
    /\ dpc[t] = "unlock"
    /\ displayMutex' = 0
    /\ dpc' = [dpc EXCEPT ![t] = "return"]
    /\ UNCHANGED <<active_display, dcfg, denv, dret, displayPool, displayCalls,
                   displayWrites, cachedFrom>>
    /\ DisplayFrame

\* Line 238: return active_display.c_str()
DisplayReturn(t) ==
    /\ dpc[t] = "return"
    /\ dret' = [dret EXCEPT ![t] = CStr(active_display)]
    /\ dpc' = [dpc EXCEPT ![t] = "done"]
    /\ UNCHANGED <<active_display, displayMutex, dcfg, denv, displayPool,
                   displayCalls, displayWrites, cachedFrom>>
    /\ DisplayFrame

\* Lines 243-250: the library's own resolution; NULL when it throws.
DisplayLibrary(t) ==
    /\ dpc[t] = "library"
    /\ \E r \in {LibraryDefaultDisplay, NULL} : dret' = [dret EXCEPT ![t] = r]
    /\ dpc' = [dpc EXCEPT ![t] = "done"]
    /\ UNCHANGED <<active_display, displayMutex, dcfg, denv, displayPool,
                   displayCalls, displayWrites, cachedFrom>>
    /\ DisplayFrame

\* The caller has used the result; the thread may call again.
DisplayFinish(t) ==
    /\ dpc[t] = "done"
    /\ dpc' = [dpc EXCEPT ![t] = "idle"]
    /\ dcfg' = [dcfg EXCEPT ![t] = <<>>]
    /\ denv' = [denv EXCEPT ![t] = FALSE]
    /\ dret' = [dret EXCEPT ![t] = None]
    /\ UNCHANGED <<active_display, displayMutex, displayPool, displayCalls,
                   displayWrites, cachedFrom>>
    /\ DisplayFrame

DisplayNext ==
    \E t \in Threads :
        \/ DisplayCall(t)
        \/ DisplayLock(t)
        \/ DisplayCheck(t)
        \/ DisplayAssign(t)
        \/ DisplayTruncate(t)
        \/ DisplayUnlock(t)
        \/ DisplayReturn(t)
        \/ DisplayLibrary(t)
        \/ DisplayFinish(t)


----------------------------------------------------------------------------
(* configGetDefaultView *)

\* tolower, on the characters of the model.
ToLowerChar(ch) ==
    CASE ch = "F" -> "f"
      [] ch = "S" -> "s"
      [] ch = "X" -> "x"
      [] ch = "Y" -> "y"
      [] OTHER -> ch

\* Lines 309-314: stringToLower
stringToLower(str) == [i \in 1..Len(str) |-> ToLowerChar(str[i])]

\* Lines 280-307: splitStringEnvStyle.  The loop, from character i on, with
\* the tokens found so far and the token being read.
RECURSIVE SplitLoop(_, _, _, _, _)
SplitLoop(str, i, tokens, token_start, token_length) ==
    IF i > Len(str)
    THEN IF token_length # 0
         THEN Append(tokens, SubSeq(str, token_start, token_start + token_length - 1))
         ELSE tokens
    ELSE IF str[i] # "," /\ str[i] # ":"
    THEN SplitLoop(str, i + 1, tokens, token_start, token_length + 1)
    ELSE SplitLoop(str, i + 1,
                   IF token_length > 0
                   THEN Append(tokens, SubSeq(str, token_start, token_start + token_length - 1))
                   ELSE tokens,
                   i + 1, 0)

splitStringEnvStyle(str) == SplitLoop(str, 1, <<>>, 1, 0)

\* The names of the model: the views an active-views list may name, the views
\* a display may support, the display names a caller may pass.
ActiveViewLists ==
    {<<>>,
     <<(<<"F">>)>>,
     <<(<<"s">>), (<<"F">>)>>,
     <<(<<"F">>), (<<"s">>)>>,
     <<(<<"s", "F">>), (<<"S">>), (<<"f">>)>>}
DisplayViewNames == {<<"f">>, <<"S">>}
DisplayArgs == {<<"X">>, <<"x">>, <<"y">>}
DisplayKeys == {stringToLower(d) : d \in DisplayArgs}

\* A configuration, as far as this function reads it: the active views, and
\* the views of each display.  The library looks a display up by its name
\* without regard to case, so a display is known here by its lower-cased name.
ViewConfigs ==
    [active : ActiveViewLists,
     views : {m \in [{<<"x">>, <<"y">>} -> SUBSET DisplayViewNames] :
                 m[<<"y">>] \in {{}, {<<"S">>}}}]

\* Config::getActiveViews()
getActiveViews(cfg) == JoinList(cfg.active)

\* Config::getNumViews(display) and Config::getView(display, i), i below it.
getViews(cfg, display) ==
    cfg.views[[i \in 1..Len(display) |-> ToLowerChar(display[i])]]

\* Config::getDefaultView(display): the library's own choice, opaque here.
LibraryDefaultView == <<"(library default view)">>

\* What a read of the map may give while another thread modifies the map.
Undefined == <<"(undefined)">>

display_views_as_spelled(cfg, display) == getViews(cfg, display)

\* Lines 342-347: the lower-cased names of the views of the display.
display_views(cfg, display) == {stringToLower(v) : v \in getViews(cfg, display)}

\* Lines 349-356: the first active view the display supports, None if none.
RECURSIVE FirstSupportedFrom(_, _, _)
FirstSupportedFrom(active_views, i, dviews) ==
    IF i > Len(active_views) THEN None
    ELSE IF stringToLower(active_views[i]) \in dviews THEN active_views[i]
    ELSE FirstSupportedFrom(active_views, i + 1, dviews)

ViewInit ==
    /\ default_display_views = [k \in DisplayKeys |-> None]
    /\ viewMutex = 0
    /\ vpc = [t \in Threads |-> "idle"]
    /\ vdisplay = [t \in Threads |-> <<>>]
    /\ venv = [t \in Threads |-> FALSE]
    /\ vfound = [t \in Threads |-> None]
    /\ vret = [t \in Threads |-> None]
    /\ viewCalls = 0
    /\ viewScans = [k \in DisplayKeys |-> 0]

ViewIdle ==
    /\ ViewInit
    /\ viewCfg = [active |-> <<>>, views |-> <<>>]
    /\ viewSequential = FALSE

\* Lines 319-328: the call, the environment check, the list, the key.
ViewCall(t) ==
    /\ FirstIdle(vpc, t)
    /\ viewCalls < MaxCalls
    /\ viewSequential => \A u \in Threads : vpc[u] \in {"idle", "done"}
    /\ \E display \in DisplayArgs, env \in BOOLEAN :
        /\ vdisplay' = [vdisplay EXCEPT ![t] = display]
        /\ venv' = [venv EXCEPT ![t] = env]
        /\ vpc' = [vpc EXCEPT ![t] =
               IF env \/ getActiveViews(viewCfg) = <<>> THEN "library" ELSE "lock"]
    /\ viewCalls' = viewCalls + 1
    /\ UNCHANGED <<default_display_views, viewMutex, vfound, vret, viewCfg,
                   viewSequential, viewScans>>
    /\ ViewFrame

\* Line 331: mutex.lock()
ViewLock(t) ==
    /\ vpc[t] = "lock"
    /\ MutexAvailable(viewMutex)
    /\ viewMutex' = t
    /\ vpc' = [vpc EXCEPT ![t] = "find"]
    /\ UNCHANGED <<default_display_views, vdisplay, venv, vfound, vret, viewCfg,
                   viewSequential, viewCalls, viewScans>>
    /\ ViewFrame

\* Lines 333-334: default_display_views.find(display_lower)
ViewFind(t) ==
    /\ vpc[t] = "find"
    /\ vpc' = [vpc EXCEPT ![t] =
           IF default_display_views[stringToLower(vdisplay[t])] # None
           THEN "unlock_hit" ELSE "scan"]
    /\ UNCHANGED <<default_display_views, viewMutex, vdisplay, venv, vfound, vret,
                   viewCfg, viewSequential, viewCalls, viewScans>>
    /\ ViewFrame

\* Lines 339-351: split the active views, collect the views of the display,
\* look for the first active view among them.
ViewScan(t) ==
    /\ vpc[t] = "scan"
    /\ LET active_views == splitStringEnvStyle(getActiveViews(viewCfg))
           view == FirstSupportedFrom(active_views, 1,
                                      display_views(viewCfg, vdisplay[t]))
       IN /\ vfound' = [vfound EXCEPT ![t] = view]
          /\ vpc' = [vpc EXCEPT ![t] = IF view # None THEN "insert" ELSE "unlock_miss"]
    /\ viewScans' = [viewScans EXCEPT ![stringToLower(vdisplay[t])] = @ + 1]
    /\ UNCHANGED <<default_display_views, viewMutex, vdisplay, venv, vret, viewCfg,
                   viewSequential, viewCalls>>
    /\ ViewFrame

\* Line 352: default_display_views[display_lower] = view
ViewInsert(t) ==
    /\ vpc[t] = "insert"
    /\ default_display_views' =
           [default_display_views EXCEPT ![stringToLower(vdisplay[t])] = vfound[t]]
    /\ vpc' = [vpc EXCEPT ![t] = "unlock_found"]
    /\ UNCHANGED <<viewMutex, vdisplay, venv, vfound, vret, viewCfg, viewSequential,
                   viewCalls, viewScans>>
    /\ ViewFrame

\* Lines 335, 353, 357: mutex.unlock(), on each of the three paths.
ViewUnlock(t) ==
    /\ vpc[t] \in {"unlock_hit", "unlock_found", "unlock_miss"}
    /\ viewMutex' = 0
    /\ vpc' = [vpc EXCEPT ![t] =
           CASE vpc[t] = "unlock_hit" -> "return_hit"
             [] vpc[t] = "unlock_found" -> "return_found"
             [] OTHER -> "library"]
    /\ UNCHANGED <<default_display_views, vdisplay, venv, vfound, vret, viewCfg,
                   viewSequential, viewCalls, viewScans>>
    /\ ViewFrame

\* Line 336: return it->second.c_str(), the entry found under the lock.
ViewReturnHit(t) ==
    /\ vpc[t] = "return_hit"
    /\ vret' = [vret EXCEPT ![t] = default_display_views[stringToLower(vdisplay[t])]]
    /\ vpc' = [vpc EXCEPT ![t] = "done"]
    /\ UNCHANGED <<default_display_views, viewMutex, vdisplay, venv, vfound, viewCfg,
                   viewSequential, viewCalls, viewScans>>
    /\ ViewFrame

\* Line 354: return default_display_views[display_lower].c_str(), a lookup in
\* the map made after the unlock of line 353.  While another thread is at its
\* insertion the lookup races with it and its outcome is not defined.
ViewReturnFound(t) ==
    /\ vpc[t] = "return_found"
    /\ \E r \in {default_display_views[stringToLower(vdisplay[t])]} \cup
                (IF \E u \in Threads : u # t /\ vpc[u] = "insert"
                 THEN {Undefined} ELSE {}) :
           vret' = [vret EXCEPT ![t] = r]
    /\ vpc' = [vpc EXCEPT ![t] = "done"]
    /\ UNCHANGED <<default_display_views, viewMutex, vdisplay, venv, vfound, viewCfg,
                   viewSequential, viewCalls, viewScans>>
    /\ ViewFrame

\* Lines 361-368: the library's own resolution; NULL when it throws.
ViewLibrary(t) ==
    /\ vpc[t] = "library"
    /\ \E r \in {LibraryDefaultView, NULL} : vret' = [vret EXCEPT ![t] = r]
    /\ vpc' = [vpc EXCEPT ![t] = "done"]
    /\ UNCHANGED <<default_display_views, viewMutex, vdisplay, venv, vfound, viewCfg,
                   viewSequential, viewCalls, viewScans>>
    /\ ViewFrame

\* The caller has used the result; the thread may call again.
ViewFinish(t) ==
    /\ vpc[t] = "done"
    /\ vpc' = [vpc EXCEPT ![t] = "idle"]
    /\ vdisplay' = [vdisplay EXCEPT ![t] = <<>>]
    /\ venv' = [venv EXCEPT ![t] = FALSE]
    /\ vfound' = [vfound EXCEPT ![t] = None]
    /\ vret' = [vret EXCEPT ![t] = None]
    /\ UNCHANGED <<default_display_views, viewMutex, viewCfg, viewSequential,
                   viewCalls, viewScans>>
    /\ ViewFrame

ViewNext ==
    \E t \in Threads :
        \/ ViewCall(t)
        \/ ViewLock(t)
        \/ ViewFind(t)
        \/ ViewScan(t)
        \/ ViewInsert(t)
        \/ ViewUnlock(t)
        \/ ViewReturnHit(t)
        \/ ViewReturnFound(t)
        \/ ViewLibrary(t)
        \/ ViewFinish(t)

\* Lines 343-345: getNumViews and getView are called with the mutex locked and
\* outside any try block; a failure of the library there leaves the function
\* as an exception, past the three calls of mutex.unlock().
ViewScanEscapes(t) ==
    /\ vpc[t] = "scan"
    /\ vpc' = [vpc EXCEPT ![t] = "escaped"]
    /\ UNCHANGED <<default_display_views, viewMutex, vdisplay, venv, vfound, vret,
                   viewCfg, viewSequential, viewCalls, viewScans>>
    /\ ViewFrame

\* The calls of configGetDefaultView, with the failures of the library
ViewFailureNext ==
    \/ ViewNext
    \/ \E t \in Threads : ViewScanEscapes(t)

\* The steps of a call once it is made
ViewProgress(t) ==
    \/ ViewLock(t)
    \/ ViewFind(t)
    \/ ViewScan(t)
    \/ ViewInsert(t)
    \/ ViewUnlock(t)
    \/ ViewReturnHit(t)
    \/ ViewReturnFound(t)
    \/ ViewLibrary(t)
    \/ ViewFinish(t)

----------------------------------------------------------------------------
(* createDisplayProcessor *)

\* The names of the model, each one token long.  The configuration knows the
\* colour spaces srgb and lin, the role scene_linear, the look film (whose
\* result colour space is lookspace), the view V and the display D.
ROLE_SCENE_LINEAR == <<"scene_linear">>
KnownColorSpaces == {<<"srgb">>, <<"lin">>, <<"lookspace">>, ROLE_SCENE_LINEAR}
KnownLooks == {<<"film">>}
KnownViews == {<<"V">>}
KnownDisplays == {<<"D">>}

\* The arguments a caller may pass; look is "" when no look is wanted.
ChainArgs ==
    [input : {<<"srgb">>, <<"nospace">>},
     view : {<<"V">>, <<"noview">>},
     display : {<<"D">>},
     look : {<<>>, <<"film">>, <<"nolook">>},
     scale : {1, 2},
     exponent : {1, 2}]

NoArgs == [input |-> <<>>, view |-> <<>>, display |-> <<>>, look |-> <<>>,
           scale |-> 1, exponent |-> 1]

\* LookTransform::GetLooksResultColorSpace: the colour space the looks end
\* in; it throws for a look the configuration does not have.
LooksResultKnown(look) == look \in KnownLooks
LooksResultColorSpace(look) == <<"lookspace">>

\* The transforms a GroupTransform holds.
ColorSpaceTransform(src, dst) == [kind |-> "colorspace", src |-> src, dst |-> dst]
MatrixTransform(scale) == [kind |-> "matrix", diagonal |-> <<scale, scale, scale, 1>>]
LookTransform(src, dst, looks) ==
    [kind |-> "look", src |-> src, dst |-> dst, looks |-> looks]
DisplayViewTransform(src, bypass, view, display) ==
    [kind |-> "displayview", src |-> src, looksBypass |-> bypass,
     view |-> view, display |-> display]
ExponentTransform(e) == [kind |-> "exponent", value |-> <<e, e, e, 1>>]

\* Config::getProcessor(group) resolves every name of every transform.
TransformResolves(tr) ==
    CASE tr.kind = "colorspace" ->
             tr.src \in KnownColorSpaces /\ tr.dst \in KnownColorSpaces
      [] tr.kind = "look" ->
             tr.src \in KnownColorSpaces /\ tr.dst \in KnownColorSpaces
             /\ tr.looks \in KnownLooks
      [] tr.kind = "displayview" ->
             tr.src \in KnownColorSpaces /\ tr.view \in KnownViews
             /\ tr.display \in KnownDisplays
      [] OTHER -> TRUE

\* What Config::getProcessor(group) may do: give a processor, give a null
\* one, or throw; it throws when a name does not resolve.
GetProcessorOutcomes(g) ==
    IF \A i \in 1..Len(g) : TransformResolves(g[i])
    THEN {"processor", "null", "throw"}
    ELSE {"throw"}

InputKeptAfterExposure(input, scale) == input

\* Line 807: input = ROLE_SCENE_LINEAR, inside if (scale != 1.0).
InputAfterExposure(input, scale) == IF scale # 1 THEN ROLE_SCENE_LINEAR ELSE input

\* Line 835: the argument of setLooksBypass, look != NULL.
LooksBypassArgument(look) == look # NULL

ChainInit ==
    /\ cpc = "idle"
    /\ cargs = NoArgs
    /\ cinput = <<>>
    /\ group = <<>>
    /\ liveHandles = 0
    /\ keptHandles = 0
    /\ cret = None
    /\ chainCalls = 0

\* Lines 786-796: the call; GroupTransform::Create().
ChainCall ==
    /\ cpc = "idle"
    /\ chainCalls < MaxCalls
    /\ \E a \in ChainArgs :
        /\ cargs' = a
        /\ cinput' = a.input
    /\ group' = <<>>
    /\ cpc' = "exposure"
    /\ chainCalls' = chainCalls + 1
    /\ UNCHANGED <<liveHandles, keptHandles, cret>>
    /\ ChainFrame

\* Lines 798-815: exposure, applied in scene linear.
ChainExposure ==
    /\ cpc = "exposure"
    /\ group' = IF cargs.scale # 1
                THEN group \o <<ColorSpaceTransform(cinput, ROLE_SCENE_LINEAR),
                                MatrixTransform(cargs.scale)>>
                ELSE group
    /\ cinput' = InputAfterExposure(cinput, cargs.scale)
    /\ cpc' = "look"
    /\ UNCHANGED <<cargs, liveHandles, keptHandles, cret, chainCalls>>
    /\ ChainFrame

\* Lines 817-830: the look transform.  GetLooksResultColorSpace is called
\* outside any try block: when it throws, the exception leaves the function.
ChainLook ==
    /\ cpc = "look"
    /\ IF Len(cargs.look) # 0
       THEN IF LooksResultKnown(cargs.look)
            THEN LET look_output == LooksResultColorSpace(cargs.look) IN
                 /\ group' = Append(group, LookTransform(cinput, look_output, cargs.look))
                 /\ cinput' = look_output
                 /\ cpc' = "displayview"
            ELSE /\ cpc' = "escaped"
                 /\ UNCHANGED <<group, cinput>>
       ELSE /\ cpc' = "displayview"
            /\ UNCHANGED <<group, cinput>>
    /\ UNCHANGED <<cargs, liveHandles, keptHandles, cret, chainCalls>>
    /\ ChainFrame

\* Lines 832-838: the display/view transform.
ChainDisplayView ==
    /\ cpc = "displayview"
    /\ group' = Append(group, DisplayViewTransform(cinput, LooksBypassArgument(cargs.look),
                                                   cargs.view, cargs.display))
    /\ cpc' = "gamma"
    /\ UNCHANGED <<cargs, cinput, liveHandles, keptHandles, cret, chainCalls>>
    /\ ChainFrame

\* Lines 840-846: gamma.
ChainGamma ==
    /\ cpc = "gamma"
    /\ group' = IF cargs.exponent # 1
                THEN Append(group, ExponentTransform(cargs.exponent))
                ELSE group
    /\ cpc' = "allocate"
    /\ UNCHANGED <<cargs, cinput, liveHandles, keptHandles, cret, chainCalls>>
    /\ ChainFrame

\* Line 849: OBJECT_GUARDED_NEW(ConstProcessorRcPtr)
ChainAllocate ==
    /\ cpc = "allocate"
    /\ liveHandles' = liveHandles + 1
    /\ cpc' = "compile"
    /\ UNCHANGED <<cargs, cinput, group, keptHandles, cret, chainCalls>>
    /\ ChainFrame

\* Lines 851-859: config->getProcessor(group) in the try block.
ChainCompile ==
    /\ cpc = "compile"
    /\ \E outcome \in GetProcessorOutcomes(group) :
        IF outcome = "processor"
        THEN /\ cret' = <<"processor">>
             /\ keptHandles' = keptHandles + 1
             /\ cpc' = "returned"
        ELSE /\ cret' = cret
             /\ keptHandles' = keptHandles
             /\ cpc' = "delete"
    /\ UNCHANGED <<cargs, cinput, group, liveHandles, chainCalls>>
    /\ ChainFrame

\* Lines 861-862: OBJECT_GUARDED_DELETE(p, ...); return NULL
ChainDelete ==
    /\ cpc = "delete"
    /\ liveHandles' = liveHandles - 1
    /\ cret' = NULL
    /\ cpc' = "returned"
    /\ UNCHANGED <<cargs, cinput, group, keptHandles, chainCalls>>
    /\ ChainFrame

\* Lines 761-764: processorRelease of the handle a call returned.
ChainRelease ==
    /\ cpc = "returned"
    /\ cret = <<"processor">>
    /\ liveHandles' = liveHandles - 1
    /\ keptHandles' = keptHandles - 1
    /\ cret' = None
    /\ cargs' = NoArgs
    /\ cinput' = <<>>
    /\ group' = <<>>
    /\ cpc' = "idle"
    /\ UNCHANGED chainCalls
    /\ ChainFrame

\* The caller goes on after a NULL result, or keeps the processor.
ChainFinish ==
    /\ cpc = "returned"
    /\ cret' = None
    /\ cargs' = NoArgs
    /\ cinput' = <<>>
    /\ group' = <<>>
    /\ cpc' = "idle"
    /\ UNCHANGED <<liveHandles, keptHandles, chainCalls>>
    /\ ChainFrame

ChainNext ==
    \/ ChainCall
    \/ ChainExposure
    \/ ChainLook
    \/ ChainDisplayView
    \/ ChainGamma
    \/ ChainAllocate
    \/ ChainCompile
    \/ ChainDelete
    \/ ChainRelease
    \/ ChainFinish


----------------------------------------------------------------------------
(* The boundary functions and the failures of the library *)

\* A library call made inside a try block whose handler reports the
\* exception (OCIO_reportException), one made inside a try block whose
\* handler is silent, and one made outside any try block.
Guarded(lib) == [lib |-> lib, try |-> TRUE, reports |-> TRUE]
Silent(lib) == [lib |-> lib, try |-> TRUE, reports |-> FALSE]
Unguarded(lib) == [lib |-> lib, try |-> FALSE, reports |-> FALSE]

Op(name, calls, sentinel) == [name |-> name, calls |-> calls, sentinel |-> sentinel]

\* Every public operation of OCIOImpl: the library calls it makes, in order,
\* and what it returns after a caught failure ("void": it returns nothing).
BoundaryOps ==
    {Op("getCurrentConfig", <<Guarded("GetCurrentConfig")>>, "NULL"),
     Op("setCurrentConfig", <<Guarded("SetCurrentConfig")>>, "void"),
     Op("configCreateFromEnv", <<Guarded("CreateFromEnv")>>, "NULL"),
     Op("configCreateFromFile", <<Guarded("CreateFromFile")>>, "NULL"),
     Op("configGetNumColorSpaces", <<Guarded("getNumColorSpaces")>>, "0"),
     Op("configGetColorSpaceNameByIndex", <<Guarded("getColorSpaceNameByIndex")>>, "NULL"),
     Op("configGetColorSpace", <<Guarded("getColorSpace")>>, "NULL"),
     Op("configGetIndexForColorSpace", <<Guarded("getIndexForColorSpace")>>, "-1"),
     Op("configGetDefaultDisplay",
        <<Unguarded("getActiveDisplays"), Guarded("getDefaultDisplay")>>, "NULL"),
     Op("configGetNumDisplays", <<Guarded("getNumDisplays")>>, "0"),
     Op("configGetDisplay", <<Guarded("getDisplay")>>, "NULL"),
     Op("configGetDefaultView",
        <<Unguarded("getActiveViews"), Unguarded("getNumViews"), Unguarded("getView"),
          Guarded("getDefaultView")>>, "NULL"),
     Op("configGetNumViews", <<Guarded("getNumViews")>>, "0"),
     Op("configGetView", <<Guarded("getView")>>, "NULL"),
     Op("configGetDisplayColorSpaceName", <<Guarded("getDisplayViewColorSpaceName")>>, "NULL"),
     Op("configGetDefaultLumaCoefs", <<Guarded("getDefaultLumaCoefs")>>, "void"),
     Op("configGetXYZtoRGB",
        <<Unguarded("hasRole"), Guarded("getProcessor"),
          Unguarded("getDefaultCPUProcessor"), Unguarded("applyRGB")>>, "void"),
     Op("configGetNumLooks", <<Guarded("getNumLooks")>>, "0"),
     Op("configGetLookNameByIndex", <<Guarded("getLookNameByIndex")>>, "NULL"),
     Op("configGetLook", <<Guarded("getLook")>>, "NULL"),
     Op("lookGetProcessSpace", <<Unguarded("getProcessSpace")>>, "NULL"),
     Op("colorSpaceIsInvertible",
        <<Unguarded("getFamily"), Unguarded("isData"), Unguarded("getTransform")>>, "0"),
     Op("colorSpaceIsData", <<Unguarded("isData")>>, "0"),
     Op("colorSpaceIsBuiltin",
        <<Silent("getProcessor"), Unguarded("getDefaultCPUProcessor"),
          Unguarded("applyRGB")>>, "void"),
     Op("configGetProcessorWithNames", <<Guarded("getProcessor")>>, "NULL"),
     Op("processorGetCPUProcessor", <<Unguarded("getDefaultCPUProcessor")>>, "NULL"),
     Op("processorApply", <<Guarded("apply")>>, "void"),
     Op("processorApply_predivide",
        <<Guarded("getNumChannels"), Guarded("applyRGBA")>>, "void"),
     Op("processorApplyRGB", <<Unguarded("applyRGB")>>, "void"),
     Op("processorApplyRGBA", <<Unguarded("applyRGBA")>>, "void"),
     Op("processorApplyRGBA_predivide", <<Unguarded("applyRGBA")>>, "void"),
     Op("colorSpaceGetName", <<Unguarded("getName")>>, "NULL"),
     Op("colorSpaceGetDescription", <<Unguarded("getDescription")>>, "NULL"),
     Op("colorSpaceGetFamily", <<Unguarded("getFamily")>>, "NULL"),
     Op("createDisplayProcessor",
        <<Unguarded("GetLooksResultColorSpace"), Guarded("getProcessor")>>, "NULL"),
     Op("createOCIO_PackedImageDesc", <<Guarded("PackedImageDesc")>>, "NULL"),
     Op("getVersionString", <<Unguarded("GetVersion")>>, "NULL"),
     Op("getVersionHex", <<Unguarded("GetVersionHex")>>, "0")}

NoOp == Op("", <<>>, "")

BoundaryInit ==
    /\ bpc = "idle"
    /\ bop = NoOp
    /\ bfail = 0
    /\ bstep = 0
    /\ bret = ""
    /\ breported = FALSE

\* A caller enters a boundary function; the library will fail in one of the
\* calls the function makes, or in none.
BoundaryEnter ==
    /\ bpc = "idle"
    /\ \E op \in BoundaryOps :
        \E fail \in 0..Len(op.calls) :
            /\ bop' = op
            /\ bfail' = fail
    /\ bstep' = 1
    /\ bpc' = "running"
    /\ UNCHANGED <<bret, breported>>
    /\ BoundaryFrame

\* The function makes its next library call.  A failure inside a try block
\* goes to the handler, which returns the sentinel; a failure outside one
\* leaves the function as an exception.
BoundaryLibraryCall ==
    /\ bpc = "running"
    /\ bstep <= Len(bop.calls)
    /\ IF bstep # bfail
       THEN /\ bstep' = bstep + 1
            /\ UNCHANGED <<bpc, bret, breported>>
       ELSE IF bop.calls[bstep].try
       THEN /\ bpc' = "returned"
            /\ bret' = bop.sentinel
            /\ breported' = bop.calls[bstep].reports
            /\ bstep' = bstep
       ELSE /\ bpc' = "escaped"
            /\ UNCHANGED <<bret, breported, bstep>>
    /\ UNCHANGED <<bop, bfail>>
    /\ BoundaryFrame

\* No library call failed: the function returns its value.
BoundaryReturn ==
    /\ bpc = "running"
    /\ bstep > Len(bop.calls)
    /\ bpc' = "returned"
    /\ bret' = "value"
    /\ UNCHANGED <<bop, bfail, bstep, breported>>
    /\ BoundaryFrame

\* The caller goes on.
BoundaryFinish ==
    /\ bpc = "returned"
    /\ bpc' = "idle"
    /\ bop' = NoOp
    /\ bfail' = 0
    /\ bstep' = 0
    /\ bret' = ""
    /\ breported' = FALSE
    /\ BoundaryFrame

BoundaryNext ==
    \/ BoundaryEnter
    \/ BoundaryLibraryCall
    \/ BoundaryReturn
    \/ BoundaryFinish


----------------------------------------------------------------------------
(* configGetXYZtoRGB *)

\* A configuration, as far as this function reads it: the roles it has, the
\* colour spaces it has beside them, and whether the library can build the
\* processors asked of it.
XyzConfigs ==
    [roles : SUBSET {"scene_linear", "aces_interchange", "XYZ"},
     spaces : SUBSET {"XXYZ"},
     processors : {"processor", "null", "no cpu processor"}]

NoXyzConfig == [roles |-> {}, spaces |-> {}, processors |-> "processor"]

\* Config::hasRole
hasRole(cfg, role) == role \in cfg.roles

\* The conversion to scene linear of each name the model has, as the 3x3
\* matrix the processor applies; the three differ and none is symmetric.
ConversionMatrix(name) ==
    CASE name = "XYZ" -> <<(<<3, -1, 0>>), (<<-1, 2, 0>>), (<<0, 1, 1>>)>>
      [] name = "aces_interchange" -> <<(<<2, 0, -1>>), (<<0, 1, 0>>), (<<1, 0, 1>>)>>
      [] OTHER -> <<(<<1, 1, 0>>), (<<0, 1, 0>>), (<<0, 2, 1>>)>>

\* CPUProcessor::applyRGB: the conversion applied to one RGB triple.
applyRGB(m, rgb) ==
    [i \in 1..3 |-> m[i][1] * rgb[1] + m[i][2] * rgb[2] + m[i][3] * rgb[3]]

\* The matrices xyz_to_rgb may hold.
OCIO_XYZ_TO_LINEAR_SRGB == [kind |-> "ITU-BT.709", rows |-> <<>>, right |-> ""]
Rows(rows) == [kind |-> "rows", rows |-> rows, right |-> ""]
\* mul_m3_m3m3(xyz_to_rgb, aces_to_rgb, xyz_to_aces), the product kept unevaluated.
MulXyzToAces(rows) == [kind |-> "product", rows |-> rows, right |-> "xyz_to_aces"]

\* Config::getProcessor(colorspace, ROLE_SCENE_LINEAR): what it does for a
\* name.  It throws for a name that is neither a role nor a colour space.
GetProcessorToSceneLinear(cfg, colorspace) ==
    IF colorspace \in cfg.roles \cup cfg.spaces THEN cfg.processors ELSE "throw"

\* Lines 445-456: the three basis vectors, each passed through applyRGB.
BasisThroughProcessor(colorspace) ==
    <<applyRGB(ConversionMatrix(colorspace), <<1, 0, 0>>),
      applyRGB(ConversionMatrix(colorspace), <<0, 1, 0>>),
      applyRGB(ConversionMatrix(colorspace), <<0, 0, 1>>)>>

CheckedRoleName == "XYZ"

\* Line 484: the colorspace name passed to to_scene_linear_matrix in the
\* branch taken when config->hasRole("XYZ").
LegacyRoleLookupName == "XXYZ"

XyzInit ==
    /\ xpc = "idle"
    /\ xcfg = NoXyzConfig
    /\ xcolorspace = ""
    /\ xyz_to_rgb = OCIO_XYZ_TO_LINEAR_SRGB

\* Lines 460-465: the call; the default matrix is copied into the result.
XyzCall ==
    /\ xpc = "idle"
    /\ xcfg' \in XyzConfigs
    /\ xyz_to_rgb' = OCIO_XYZ_TO_LINEAR_SRGB
    /\ xcolorspace' = ""
    /\ xpc' = "roles"
    /\ XyzFrame

\* Lines 467-485: the roles decide which conversion is looked up, if any.
XyzRoles ==
    /\ xpc = "roles"
    /\ IF ~hasRole(xcfg, "scene_linear")
       THEN xpc' = "done" /\ xcolorspace' = xcolorspace
       ELSE IF hasRole(xcfg, "aces_interchange")
       THEN xpc' = "processor" /\ xcolorspace' = "aces_interchange"
       ELSE IF hasRole(xcfg, "XYZ")
       THEN xpc' = "processor" /\ xcolorspace' = LegacyRoleLookupName
       ELSE xpc' = "done" /\ xcolorspace' = xcolorspace
    /\ UNCHANGED <<xcfg, xyz_to_rgb>>
    /\ XyzFrame

\* Lines 427-443: to_scene_linear_matrix asks for the processor; it returns
\* false when the library throws, gives no processor or no CPU processor.
XyzGetProcessor ==
    /\ xpc = "processor"
    /\ xpc' = IF GetProcessorToSceneLinear(xcfg, xcolorspace) = "processor"
              THEN "apply" ELSE "done"
    /\ UNCHANGED <<xcfg, xcolorspace, xyz_to_rgb>>
    /\ XyzFrame

\* Lines 445-457, then line 479 in the aces_interchange branch.
XyzApply ==
    /\ xpc = "apply"
    /\ xyz_to_rgb' = IF hasRole(xcfg, "aces_interchange")
                     THEN MulXyzToAces(BasisThroughProcessor(xcolorspace))
                     ELSE Rows(BasisThroughProcessor(xcolorspace))
    /\ xpc' = "done"
    /\ UNCHANGED <<xcfg, xcolorspace>>
    /\ XyzFrame

\* The caller has the matrix; it may call again.
XyzFinish ==
    /\ xpc = "done"
    /\ xpc' = "idle"
    /\ xcfg' = NoXyzConfig
    /\ xcolorspace' = ""
    /\ xyz_to_rgb' = OCIO_XYZ_TO_LINEAR_SRGB
    /\ XyzFrame

XyzNext ==
    \/ XyzCall
    \/ XyzRoles
    \/ XyzGetProcessor
    \/ XyzApply
    \/ XyzFinish

----------------------------------------------------------------------------
(* Single precision arithmetic *)

\* A float is its sign, and its magnitude m * 2^e with 2^23 <= m < 2^24;
\* zero has m = 0.  The operations round to nearest, ties to even, as the
\* hardware does.  No value of the model is subnormal, infinite or NaN.
MantissaBits == 24
Zero == [sign |-> 0, e |-> 0, m |-> 0]

RECURSIVE RoundFloat(_, _, _, _)
\* The float nearest to M * 2^e, or to a little more than that when sticky.
RoundFloat(sign, M, e, sticky) ==
    IF M = 0 THEN Zero
    ELSE IF M < 2^(MantissaBits - 1) THEN RoundFloat(sign, M * 2, e - 1, sticky)
    ELSE IF M < 2^MantissaBits THEN [sign |-> sign, e |-> e, m |-> M]
    ELSE IF M < 2^(MantissaBits + 1)
    THEN LET half == M \div 2
             up == (M % 2) = 1 /\ (sticky \/ (half % 2) = 1)
             r == IF up THEN half + 1 ELSE half
         IN  IF r = 2^MantissaBits
             THEN [sign |-> sign, e |-> e + 2, m |-> 2^(MantissaBits - 1)]
             ELSE [sign |-> sign, e |-> e + 1, m |-> r]
    ELSE RoundFloat(sign, M \div 2, e + 1, sticky \/ (M % 2) = 1)

\* (float)n for an integer 0 <= n < 2^24
FromInt(n) == RoundFloat(0, n, 0, FALSE)

\* |a| < |b|
MagLess(a, b) ==
    IF b.m = 0 THEN FALSE
    ELSE IF a.m = 0 THEN TRUE
    ELSE a.e < b.e \/ (a.e = b.e /\ a.m < b.m)

\* a < b
FLess(a, b) ==
    IF a.m = 0 /\ b.m = 0 THEN FALSE
    ELSE IF a.sign = 1 /\ a.m # 0
    THEN IF b.sign = 1 /\ b.m # 0 THEN MagLess(b, a) ELSE TRUE
    ELSE IF b.sign = 1 /\ b.m # 0 THEN FALSE ELSE MagLess(a, b)

\* fabsf
fabsf(a) == [a EXCEPT !.sign = 0]

\* |a| + |b|, rounded
AddMagnitudes(sign, a, b) ==
    IF a.m = 0 THEN [b EXCEPT !.sign = sign]
    ELSE IF b.m = 0 THEN [a EXCEPT !.sign = sign]
    ELSE LET hi == IF a.e >= b.e THEN a ELSE b
             lo == IF a.e >= b.e THEN b ELSE a
             d == hi.e - lo.e
         IN  IF d > MantissaBits + 2
             THEN RoundFloat(sign, hi.m * 8, hi.e - 3, TRUE)
             ELSE RoundFloat(sign, hi.m * 8 + ((lo.m * 8) \div (2^d)), hi.e - 3,
                             ((lo.m * 8) % (2^d)) # 0)

\* |a| - |b| for |a| >= |b|, rounded
SubMagnitudes(sign, a, b) ==
    IF b.m = 0 THEN [a EXCEPT !.sign = sign]
    ELSE LET d == a.e - b.e
         IN  IF d > MantissaBits + 2
             THEN RoundFloat(sign, a.m * 8 - 1, a.e - 3, TRUE)
             ELSE LET B == (b.m * 8) \div (2^d)
                      sticky == ((b.m * 8) % (2^d)) # 0
                  IN  RoundFloat(sign, a.m * 8 - B - (IF sticky THEN 1 ELSE 0),
                                 a.e - 3, sticky)

\* a + b
FAdd(a, b) ==
    IF a.sign = b.sign THEN AddMagnitudes(a.sign, a, b)
    ELSE IF MagLess(a, b) THEN SubMagnitudes(b.sign, b, a)
    ELSE IF MagLess(b, a) THEN SubMagnitudes(a.sign, a, b)
    ELSE Zero

\* a - b
FSub(a, b) == FAdd(a, [b EXCEPT !.sign = 1 - b.sign])

\* a * b: the 48 bit product of the mantissas, built from 12 bit halves.
FMul(a, b) ==
    IF a.m = 0 \/ b.m = 0 THEN Zero
    ELSE LET ah == a.m \div 4096
             al == a.m % 4096
             bh == b.m \div 4096
             bl == b.m % 4096
             low == al * bl
             mid == ah * bl + al * bh + (low \div 4096)
             high == ah * bh + (mid \div 4096)
             rest == (mid % 4096) * 4096 + (low % 4096)
             sign == (a.sign + b.sign) % 2
         IN  IF high >= 2^(MantissaBits - 1)
             THEN RoundFloat(sign, high * 2 + (rest \div (2^23)), a.e + b.e + 23,
                             (rest % (2^23)) # 0)
             ELSE RoundFloat(sign, high * 4 + (rest \div (2^22)), a.e + b.e + 22,
                             (rest % (2^22)) # 0)

RECURSIVE DivideMantissa(_, _, _, _)
\* Long division: n more bits of the quotient q, from the remainder r.
DivideMantissa(q, r, d, n) ==
    IF n = 0 THEN <<q, r>>
    ELSE IF 2 * r >= d THEN DivideMantissa(2 * q + 1, 2 * r - d, d, n - 1)
    ELSE DivideMantissa(2 * q, 2 * r, d, n - 1)

\* a / b for b # 0
FDiv(a, b) ==
    IF a.m = 0 THEN Zero
    ELSE LET qr == DivideMantissa(0, a.m, b.m * 2, MantissaBits + 2)
         IN  RoundFloat((a.sign + b.sign) % 2, qr[1],
                        a.e - b.e - MantissaBits - 1, qr[2] # 0)

\* *(int *)&a: the bits of the float, read as a 32 bit integer.
AsInt(a) ==
    IF a.m = 0 THEN 0
    ELSE LET magnitude == (a.e + 127 + MantissaBits - 1) * 2^(MantissaBits - 1)
                          + (a.m - 2^(MantissaBits - 1))
         IN  IF a.sign = 1 THEN magnitude - 2147483647 - 1 ELSE magnitude

\* The float of given bits, for 0 <= bits < 2^31.
FromBits(bits) ==
    IF bits = 0 THEN Zero ELSE
    [sign |-> 0,
     e |-> (bits \div (2^(MantissaBits - 1))) - 127 - (MantissaBits - 1),
     m |-> 2^(MantissaBits - 1) + (bits % (2^(MantissaBits - 1)))]

\* abs() of an int
abs(n) == IF n < 0 THEN -n ELSE n

----------------------------------------------------------------------------
(* colorSpaceIsBuiltin *)

\* Line 610: the number of sampled intensities
NumSamples == 256

\* Line 611: v = i / 255.0f
SampleValues == [i \in 0..(NumSamples - 1) |-> FDiv(FromInt(i), FromInt(255))]

\* The index of a sampled intensity
SampleIndex(v) == CHOOSE i \in 0..(NumSamples - 1) : SampleValues[i] = v

\* The standard sRGB to linear transfer function, in single precision, at
\* the sampled intensities: the bits of its 256 values.
SrgbToLinearBits ==
    <<
      0, 966730420, 975119028, 980333582, 983507636, 986114913,
      988722190, 990592605, 991896244, 993199883, 994503521, 995840397,
      997257613, 998498758, 999286294, 1000114173, 1000982965, 1001893231,
      1002845513, 1003840351, 1004878273, 1005959792, 1006859189, 1007444306,
      1008051971, 1008682430, 1009335915, 1010012663, 1010712905, 1011436867,
      1012184775, 1012956849, 1013753308, 1014574370, 1015220904, 1015656351,
      1016104411, 1016565189, 1017038784, 1017525297, 1018024829, 1018537473,
      1019063328, 1019602489, 1020155051, 1020721107, 1021300750, 1021894073,
      1022501164, 1023122113, 1023583593, 1023908060, 1024239588, 1024578222,
      1024924003, 1025276974, 1025637177, 1026004658, 1026379451, 1026761600,
      1027151147, 1027548131, 1027952593, 1028364572, 1028784111, 1029211242,
      1029646007, 1030088446, 1030538596, 1030996495, 1031462181, 1031867238,
      1032107925, 1032352560, 1032601162, 1032853750, 1033110341, 1033370954,
      1033635606, 1033904315, 1034177099, 1034453975, 1034734960, 1035020072,
      1035309328, 1035602744, 1035900341, 1036202130, 1036508130, 1036818358,
      1037132831, 1037451564, 1037774575, 1038101879, 1038433493, 1038769433,
      1039109714, 1039454353, 1039803365, 1040156766, 1040350983, 1040532096,
      1040715427, 1040900984, 1041088773, 1041278804, 1041471083, 1041665618,
      1041862416, 1042061485, 1042262832, 1042466465, 1042672391, 1042880618,
      1043091152, 1043304001, 1043519172, 1043736673, 1043956510, 1044178691,
      1044403222, 1044630111, 1044859364, 1045090990, 1045324994, 1045561383,
      1045800166, 1046041347, 1046284939, 1046530940, 1046779360, 1047030207,
      1047283488, 1047539208, 1047797375, 1048057996, 1048321080, 1048581314,
      1048715324, 1048850573, 1048987066, 1049124805, 1049263794, 1049404035,
      1049545533, 1049688289, 1049832308, 1049977592, 1050124145, 1050271970,
      1050421070, 1050571447, 1050723106, 1050876050, 1051030280, 1051185801,
      1051342616, 1051500727, 1051660137, 1051820851, 1051982870, 1052146197,
      1052310836, 1052476790, 1052644065, 1052812657, 1052982573, 1053153815,
      1053326387, 1053500291, 1053675531, 1053852109, 1054030028, 1054209291,
      1054389901, 1054571860, 1054755173, 1054939841, 1055125867, 1055313255,
      1055502006, 1055692125, 1055883613, 1056076474, 1056270710, 1056466324,
      1056663319, 1056861698, 1057013035, 1057113612, 1057214885, 1057316856,
      1057419526, 1057522895, 1057626966, 1057731739, 1057837216, 1057943399,
      1058050289, 1058157886, 1058266193, 1058375211, 1058484941, 1058595385,
      1058706543, 1058818417, 1058931009, 1059044319, 1059158350, 1059273102,
      1059388576, 1059504774, 1059621697, 1059739347, 1059857725, 1059976832,
      1060096668, 1060217237, 1060338538, 1060460574, 1060583345, 1060706854,
      1060831100, 1060956085, 1061081810, 1061208276, 1061335486, 1061463440,
      1061592139, 1061721585, 1061851778, 1061982721, 1062114414, 1062246859,
      1062380056, 1062514007, 1062648714, 1062784176, 1062920397, 1063057376,
      1063195116, 1063333614, 1063472879, 1063612903, 1063753697, 1063895252,
      1064037579, 1064180671, 1064324534, 1064469167, 1064614574, 1064760750,
      1064907705, 1065055430, 1065203936, 1065353216>>

\* srgb_to_linearrgb, of BLI_math_color, for a sampled intensity
srgb_to_linearrgb(c) == FromBits(SrgbToLinearBits[SampleIndex(c) + 1])

\* The literals of the source, each the float nearest to the decimal.
AbsDiff == FDiv(FromInt(1), FromInt(1000000))
CrosstalkLimit == FDiv(FromInt(1), FromInt(100000))
OneThird == FDiv(FromInt(1), FromInt(3))
UlpDiff == 64

\* The same function with every pair passing, for comparison.
compare_floats_always(a, b, abs_diff, ulp_diff) == TRUE

\* Lines 571-585: compare_floats
compare_floats(a, b, abs_diff, ulp_diff) ==
    IF FLess(fabsf(FSub(a, b)), abs_diff) THEN TRUE
    ELSE IF FLess(a, Zero) # FLess(b, Zero) THEN FALSE
    ELSE abs(AsInt(a) - AsInt(b)) < ulp_diff

\* a * 2^k
ScaleFloat(a, k) == IF a.m = 0 THEN a ELSE [a EXCEPT !.e = @ + k]

\* The conversions to scene linear the model has.  Each applies a curve to
\* every channel (none, the sRGB decoding, or a gain of 2), may scale green
\* by 2, may leak red into green by a factor 2^-leak (0: no leak), and may
\* fail to be additive, doubling any colour that is not a pure primary.
\* A colour space may also have no conversion at all.
ColorSpaces ==
    [convertible : {TRUE}, curve : {"identity", "srgb", "gain"},
     green : {0, 1}, leak : {0, 4, 10, 20}, additive : BOOLEAN]
    \cup {[convertible |-> FALSE, curve |-> "identity", green |-> 0, leak |-> 0,
           additive |-> TRUE]}

IdentityColorSpace ==
    [convertible |-> TRUE, curve |-> "identity", green |-> 0, leak |-> 0,
     additive |-> TRUE]

SrgbColorSpace == [IdentityColorSpace EXCEPT !.curve = "srgb"]

\* The curve of a colour space, on one channel
ApplyCurve(cs, x) ==
    CASE cs.curve = "identity" -> x
      [] cs.curve = "srgb" -> srgb_to_linearrgb(x)
      [] OTHER -> ScaleFloat(x, 1)

\* CPUProcessor::applyRGB for the conversion of a colour space
TransformRGB(cs, rgb) ==
    LET r == ApplyCurve(cs, rgb[1])
        g == ScaleFloat(ApplyCurve(cs, rgb[2]), cs.green)
        b == ApplyCurve(cs, rgb[3])
        out == <<r, IF cs.leak = 0 THEN g ELSE FAdd(g, ScaleFloat(r, -cs.leak)), b>>
        pure == Cardinality({k \in 1..3 : rgb[k].m # 0}) <= 1
    IN  IF cs.additive \/ pure THEN out
        ELSE <<ScaleFloat(out[1], 1), ScaleFloat(out[2], 1), ScaleFloat(out[3], 1)>>

\* Lines 613-620: the four probes of one intensity, after applyRGB
Probes(cs, v) ==
    [cR |-> TransformRGB(cs, <<v, Zero, Zero>>),
     cG |-> TransformRGB(cs, <<Zero, v, Zero>>),
     cB |-> TransformRGB(cs, <<Zero, Zero, v>>),
     cW |-> TransformRGB(cs, <<v, v, v>>)]

\* Lines 623-624: channel crosstalk
Crosstalk(p) ==
    \/ FLess(CrosstalkLimit, fabsf(p.cR[2]))
    \/ FLess(CrosstalkLimit, fabsf(p.cR[3]))
    \/ FLess(CrosstalkLimit, fabsf(p.cG[1]))
    \/ FLess(CrosstalkLimit, fabsf(p.cG[3]))
    \/ FLess(CrosstalkLimit, fabsf(p.cB[1]))
    \/ FLess(CrosstalkLimit, fabsf(p.cB[2]))

\* Lines 630-631: the three primaries combine linearly
PrimariesCombine(p) ==
    /\ compare_floats(p.cR[1], p.cW[1], AbsDiff, UlpDiff)
    /\ compare_floats(p.cG[2], p.cW[2], AbsDiff, UlpDiff)
    /\ compare_floats(p.cB[3], p.cW[3], AbsDiff, UlpDiff)

\* Line 637: the three channels behave identically
ChannelsAgree(p) ==
    /\ compare_floats(p.cW[1], p.cW[2], AbsDiff, UlpDiff)
    /\ compare_floats(p.cW[2], p.cW[3], AbsDiff, UlpDiff)

\* Line 643: out_v
OutV(p) == FMul(FAdd(FAdd(p.cW[1], p.cW[2]), p.cW[3]), OneThird)

\* A continue in the place of the break, for comparison.
LoopContinue(i) ==
    [i |-> i + 1, pc |-> IF i + 1 < NumSamples THEN "loop" ELSE "done"]

\* Lines 627, 634, 640: break; the loop is left with i as it is.
LoopBreak(i) == [i |-> i, pc |-> "done"]

ClassifyInit ==
    /\ kpc = "idle"
    /\ kcs = IdentityColorSpace
    /\ ki = 0
    /\ is_scene_linear = FALSE
    /\ is_srgb = FALSE
    /\ evaluated = 0

\* Lines 587-594: the call, on some colour space; the two flags are the
\* caller's variables and hold whatever the caller left in them.
ClassifyCall ==
    /\ kpc = "idle"
    /\ kcs' \in ColorSpaces
    /\ is_scene_linear' \in BOOLEAN
    /\ is_srgb' \in BOOLEAN
    /\ ki' = 0
    /\ evaluated' = 0
    /\ kpc' = "processor"
    /\ ClassifyFrame

\* Lines 596-609: the processor of the conversion to scene linear; without
\* one both flags are false, with one both start true.
ClassifyGetProcessor ==
    /\ kpc = "processor"
    /\ IF kcs.convertible
       THEN /\ is_scene_linear' = TRUE
            /\ is_srgb' = TRUE
            /\ kpc' = "loop"
       ELSE /\ is_scene_linear' = FALSE
            /\ is_srgb' = FALSE
            /\ kpc' = "done"
    /\ UNCHANGED <<kcs, ki, evaluated>>
    /\ ClassifyFrame

\* Lines 610-650: one pass of the loop, for the intensity of index ki
ClassifySample ==
    /\ kpc = "loop"
    /\ ki < NumSamples
    /\ LET v == SampleValues[ki]
           p == Probes(kcs, v)
       IN  IF Crosstalk(p) \/ ~PrimariesCombine(p) \/ ~ChannelsAgree(p)
           THEN /\ is_scene_linear' = FALSE
                /\ is_srgb' = FALSE
                /\ ki' = LoopBreak(ki).i
                /\ kpc' = LoopBreak(ki).pc
           ELSE /\ is_scene_linear' =
                       (is_scene_linear /\ compare_floats(v, OutV(p), AbsDiff, UlpDiff))
                /\ is_srgb' =
                       (is_srgb /\ compare_floats(srgb_to_linearrgb(v), OutV(p),
                                                  AbsDiff, UlpDiff))
                /\ ki' = ki + 1
                /\ kpc' = IF ki + 1 < NumSamples THEN "loop" ELSE "done"
    /\ evaluated' = evaluated + 1
    /\ UNCHANGED kcs
    /\ ClassifyFrame

\* The caller has the two flags; it may call again.
ClassifyFinish ==
    /\ kpc = "done"
    /\ kpc' = "idle"
    /\ kcs' = IdentityColorSpace
    /\ ki' = 0
    /\ is_scene_linear' = FALSE
    /\ is_srgb' = FALSE
    /\ evaluated' = 0
    /\ ClassifyFrame

ClassifyNext ==
    \/ ClassifyCall
    \/ ClassifyGetProcessor
    \/ ClassifySample
    \/ ClassifyFinish

----------------------------------------------------------------------------
(* colorSpaceIsInvertible *)

\* A string literal as a C string
Chars(str) ==
    CASE str = "rrt" -> <<"r", "r", "t">>
      [] str = "display" -> <<"d", "i", "s", "p", "l", "a", "y">>
      [] str = "RRT" -> <<"R", "R", "T">>
      [] str = "rr" -> <<"r", "r">>
      [] str = "rrtx" -> <<"r", "r", "t", "x">>
      [] str = "Display" -> <<"D", "i", "s", "p", "l", "a", "y">>
      [] str = "displays" -> <<"d", "i", "s", "p", "l", "a", "y", "s">>
      [] str = "scene" -> <<"s", "c", "e", "n", "e">>
      [] OTHER -> <<>>

\* strncmp(a, b, strlen(b)): 0 when a starts with b.
strcmp_prefix(a, b) ==
    IF Len(CStr(a)) >= Len(CStr(b)) /\ SubSeq(CStr(a), 1, Len(CStr(b))) = CStr(b)
    THEN 0 ELSE 1

RECURSIVE strcmp(_, _)
\* strcmp: 0 when the two strings agree character by character up to and
\* including the end, nonzero at the first difference.
strcmp(a, b) ==
    LET x == IF a = <<>> THEN NUL ELSE Head(a)
        y == IF b = <<>> THEN NUL ELSE Head(b)
    IN  IF x # y THEN 1
        ELSE IF x = NUL THEN 0
        ELSE strcmp(Tail(a), Tail(b))

Families == {"rrt", "display", "RRT", "rr", "rrtx", "Display", "displays", "scene", ""}

\* A colour space, as far as this function reads it: getFamily(), isData(),
\* and whether getTransform(COLORSPACE_DIR_TO_REFERENCE) gives a transform.
InvertibleColorSpaces ==
    [family : {Chars(f) : f \in Families}, isData : BOOLEAN, toReference : BOOLEAN]

NoColorSpace == [family |-> <<>>, isData |-> FALSE, toReference |-> FALSE]

InvertibleInit ==
    /\ ipc = "idle"
    /\ ics = NoColorSpace
    /\ iret = -1

\* Lines 541-543: the call, on some colour space
InvertibleCall ==
    /\ ipc = "idle"
    /\ ics' \in InvertibleColorSpaces
    /\ iret' = -1
    /\ ipc' = "family"
    /\ InvertibleFrame

\* Lines 544-550: getFamily and the two strcmp; the getter is called outside
\* any try block, so a failure of the library leaves the function.
InvertibleFamily ==
    /\ ipc = "family"
    /\ \/ IF strcmp(ics.family, Chars("rrt")) = 0
             \/ strcmp(ics.family, Chars("display")) = 0
          THEN ipc' = "done" /\ iret' = 0
          ELSE ipc' = "data" /\ iret' = iret
       \/ ipc' = "escaped" /\ iret' = iret
    /\ UNCHANGED ics
    /\ InvertibleFrame

\* Lines 552-555: a data colour space
InvertibleData ==
    /\ ipc = "data"
    /\ \/ IF ics.isData
          THEN ipc' = "done" /\ iret' = 1
          ELSE ipc' = "transform" /\ iret' = iret
       \/ ipc' = "escaped" /\ iret' = iret
    /\ UNCHANGED ics
    /\ InvertibleFrame

\* Lines 557-563: with a transform to the reference space or without one
InvertibleTransform ==
    /\ ipc = "transform"
    /\ \/ IF ics.toReference
          THEN ipc' = "done" /\ iret' = 1
          ELSE ipc' = "done" /\ iret' = 1
       \/ ipc' = "escaped" /\ iret' = iret
    /\ UNCHANGED ics
    /\ InvertibleFrame

\* The caller has the result, or the exception; it may call again.
InvertibleFinish ==
    /\ ipc \in {"done", "escaped"}
    /\ ipc' = "idle"
    /\ ics' = NoColorSpace
    /\ iret' = -1
    /\ InvertibleFrame

InvertibleNext ==
    \/ InvertibleCall
    \/ InvertibleFamily
    \/ InvertibleData
    \/ InvertibleTransform
    \/ InvertibleFinish

----------------------------------------------------------------------------
(* processorApplyRGBA_predivide *)

One == FromInt(1)

\* The channel values and the alpha values of the model's pixels
ChannelValues == {Zero, FDiv(FromInt(1), FromInt(5)), FDiv(FromInt(3), FromInt(4))}
AlphaValues ==
    {Zero, One, FDiv(FromInt(1), FromInt(2)), FDiv(FromInt(1), FromInt(3)),
     FDiv(FromInt(3), FromInt(10)), FromInt(2)}

Pixels == {<<r, g, b, a>> : r \in ChannelValues, g \in ChannelValues,
                            b \in {FDiv(FromInt(1), FromInt(5))}, a \in AlphaValues}

\* The transforms the model's CPU processors apply to four channels: none,
\* a gain of 2 on the colour, a halving of alpha, alpha added to red.
RGBATransforms == {"identity", "gain", "half alpha", "alpha into red"}

\* CPUProcessor::applyRGBA
applyRGBA(t, px) ==
    CASE t = "identity" -> px
      [] t = "gain" -> <<ScaleFloat(px[1], 1), ScaleFloat(px[2], 1), ScaleFloat(px[3], 1), px[4]>>
      [] t = "half alpha" -> <<px[1], px[2], px[3], ScaleFloat(px[4], -1)>>
      [] OTHER -> <<FAdd(px[1], px[4]), px[2], px[3], px[4]>>

\* The alpha of the processor's output, for comparison.
ProducedAlpha(local, px) == px[4]

\* Lines 754-756: the factor of the final multiplication is the local alpha,
\* read from the pixel before the transform.
RemultiplyFactor(local, px) == local

PredivideInit ==
    /\ apc = "idle"
    /\ pixel = <<Zero, Zero, Zero, Zero>>
    /\ pixel_in = <<Zero, Zero, Zero, Zero>>
    /\ aprocessor = "identity"
    /\ alpha = Zero
    /\ inv_alpha = Zero

\* Line 738: the call, on some pixel with some processor
PredivideCall ==
    /\ apc = "idle"
    /\ pixel' \in Pixels
    /\ pixel_in' = pixel'
    /\ aprocessor' \in RGBATransforms
    /\ alpha' = Zero
    /\ inv_alpha' = Zero
    /\ apc' = "test"
    /\ PredivideFrame

\* Lines 740-742: alpha 1 or 0, the plain apply.  applyRGBA is called outside
\* any try block, so a failure of the library leaves the function.
PredividePlain ==
    /\ apc = "test"
    /\ pixel[4] = One \/ pixel[4] = Zero
    /\ \/ pixel' = applyRGBA(aprocessor, pixel) /\ apc' = "done"
       \/ pixel' = pixel /\ apc' = "escaped"
    /\ UNCHANGED <<pixel_in, aprocessor, alpha, inv_alpha>>
    /\ PredivideFrame

\* Lines 743-751: any other alpha; the colour times the reciprocal of alpha
PredivideDivide ==
    /\ apc = "test"
    /\ ~(pixel[4] = One \/ pixel[4] = Zero)
    /\ alpha' = pixel[4]
    /\ inv_alpha' = FDiv(One, pixel[4])
    /\ pixel' = <<FMul(pixel[1], inv_alpha'), FMul(pixel[2], inv_alpha'),
                  FMul(pixel[3], inv_alpha'), pixel[4]>>
    /\ apc' = "apply"
    /\ UNCHANGED <<pixel_in, aprocessor>>
    /\ PredivideFrame

\* Line 752: applyRGBA on the divided pixel
PredivideApply ==
    /\ apc = "apply"
    /\ \/ pixel' = applyRGBA(aprocessor, pixel) /\ apc' = "multiply"
       \/ pixel' = pixel /\ apc' = "escaped"
    /\ UNCHANGED <<pixel_in, aprocessor, alpha, inv_alpha>>
    /\ PredivideFrame

\* Lines 754-756: the colour times alpha again
PredivideMultiply ==
    /\ apc = "multiply"
    /\ pixel' = <<FMul(pixel[1], RemultiplyFactor(alpha, pixel)),
                  FMul(pixel[2], RemultiplyFactor(alpha, pixel)),
                  FMul(pixel[3], RemultiplyFactor(alpha, pixel)), pixel[4]>>
    /\ apc' = "done"
    /\ UNCHANGED <<pixel_in, aprocessor, alpha, inv_alpha>>
    /\ PredivideFrame

\* The caller has the pixel, or the exception; it may call again.
PredivideFinish ==
    /\ apc \in {"done", "escaped"}
    /\ apc' = "idle"
    /\ pixel' = <<Zero, Zero, Zero, Zero>>
    /\ pixel_in' = <<Zero, Zero, Zero, Zero>>
    /\ aprocessor' = "identity"
    /\ alpha' = Zero
    /\ inv_alpha' = Zero
    /\ PredivideFrame

PredivideNext ==
    \/ PredivideCall
    \/ PredividePlain
    \/ PredivideDivide
    \/ PredivideApply
    \/ PredivideMultiply
    \/ PredivideFinish

----------------------------------------------------------------------------
(* The handle-returning operations and the release operations *)

HandleKinds == {"config", "colorspace", "look", "processor"}

\* The operations that return a guarded handle: the kind of the handle, and
\* whether the operation has library calls before its OBJECT_GUARDED_NEW that
\* are outside any try block.
HandleOps ==
    {[name |-> "getCurrentConfig", kind |-> "config", before |-> FALSE],
     [name |-> "configCreateFromEnv", kind |-> "config", before |-> FALSE],
     [name |-> "configCreateFromFile", kind |-> "config", before |-> FALSE],
     [name |-> "configGetColorSpace", kind |-> "colorspace", before |-> FALSE],
     [name |-> "configGetLook", kind |-> "look", before |-> FALSE],
     [name |-> "configGetProcessorWithNames", kind |-> "processor", before |-> FALSE],
     [name |-> "createDisplayProcessor", kind |-> "processor", before |-> TRUE]}

NoHandleOp == [name |-> "", kind |-> "config", before |-> FALSE]

\* What the library may do in a call: give an object, give a null object,
\* throw inside the try block; and, in createDisplayProcessor, throw in the
\* look resolution of lines 819-820, before the handle is allocated.
LibraryOutcomes(op) ==
    {"object", "null", "throw"} \cup (IF op.before THEN {"throw before"} ELSE {})

\* Without the free, for comparison.
OBJECT_GUARDED_LEAK(n) == n

\* OBJECT_GUARDED_NEW and OBJECT_GUARDED_DELETE, on the count of a kind
OBJECT_GUARDED_NEW(n) == n + 1
OBJECT_GUARDED_DELETE(n) == n - 1

HandleInit ==
    /\ hpc = "idle"
    /\ hop = NoHandleOp
    /\ hlibrary = "object"
    /\ handles = [k \in HandleKinds |-> 0]
    /\ held = [k \in HandleKinds |-> 0]
    /\ hret = ""
    /\ hallocs = 0
    /\ hfrees = 0

\* A caller enters one of the operations.
HandleCall ==
    /\ hpc = "idle"
    /\ \A k \in HandleKinds : held[k] < MaxLiveHandles
    /\ \E op \in HandleOps :
        /\ hop' = op
        /\ hlibrary' \in LibraryOutcomes(op)
    /\ hpc' = "enter"
    /\ hret' = ""
    /\ hallocs' = 0
    /\ hfrees' = 0
    /\ UNCHANGED <<handles, held>>
    /\ HandleFrame

\* Lines 819-820: the look resolution of createDisplayProcessor throws; the
\* exception leaves the function before line 849.
HandleThrowBefore ==
    /\ hpc = "enter"
    /\ hlibrary = "throw before"
    /\ hpc' = "escaped"
    /\ UNCHANGED <<hop, hlibrary, handles, held, hret, hallocs, hfrees>>
    /\ HandleFrame

\* Lines 91, 120, 139, 188, 514, 662, 849: OBJECT_GUARDED_NEW
HandleAllocate ==
    /\ hpc = "enter"
    /\ hlibrary # "throw before"
    /\ handles' = [handles EXCEPT ![hop.kind] = OBJECT_GUARDED_NEW(@)]
    /\ hallocs' = hallocs + 1
    /\ hpc' = "try"
    /\ UNCHANGED <<hop, hlibrary, held, hret, hfrees>>
    /\ HandleFrame

\* The try block: the library call, and the return of the handle when the
\* object is not null; a null object and a caught exception go on to the
\* delete.
HandleTry ==
    /\ hpc = "try"
    /\ IF hlibrary = "object"
       THEN /\ hret' = "handle"
            /\ held' = [held EXCEPT ![hop.kind] = @ + 1]
            /\ hpc' = "done"
       ELSE /\ hret' = hret
            /\ held' = held
            /\ hpc' = "delete"
    /\ UNCHANGED <<hop, hlibrary, handles, hallocs, hfrees>>
    /\ HandleFrame

\* Lines 103-105 and their likes: OBJECT_GUARDED_DELETE, return NULL
HandleDelete ==
    /\ hpc = "delete"
    /\ handles' = [handles EXCEPT ![hop.kind] = OBJECT_GUARDED_DELETE(@)]
    /\ hfrees' = hfrees + 1
    /\ hret' = "NULL"
    /\ hpc' = "done"
    /\ UNCHANGED <<hop, hlibrary, held, hallocs>>
    /\ HandleFrame

\* The caller has the result, or the exception.
HandleFinish ==
    /\ hpc \in {"done", "escaped"}
    /\ hpc' = "idle"
    /\ hop' = NoHandleOp
    /\ hlibrary' = "object"
    /\ hret' = ""
    /\ hallocs' = 0
    /\ hfrees' = 0
    /\ UNCHANGED <<handles, held>>
    /\ HandleFrame

\* Lines 156-159, 536-539, 653-656, 761-764: configRelease, lookRelease,
\* colorSpaceRelease, processorRelease on a result the caller holds
HandleRelease ==
    /\ hpc = "idle"
    /\ \E k \in HandleKinds :
        /\ held[k] > 0
        /\ handles' = [handles EXCEPT ![k] = OBJECT_GUARDED_DELETE(@)]
        /\ held' = [held EXCEPT ![k] = @ - 1]
    /\ UNCHANGED <<hpc, hop, hlibrary, hret, hallocs, hfrees>>
    /\ HandleFrame

HandleNext ==
    \/ HandleCall
    \/ HandleThrowBefore
    \/ HandleAllocate
    \/ HandleTry
    \/ HandleDelete
    \/ HandleFinish
    \/ HandleRelease

----------------------------------------------------------------------------
(* The specifications *)

\* A process uses one configuration, or any of them.
DisplayPools == {DisplayConfigs} \cup {{c} : c \in DisplayConfigs}

InitDisplay ==
    /\ DisplayInit
    /\ displayPool \in DisplayPools
    /\ ViewIdle
    /\ ChainInit
    /\ BoundaryInit
    /\ XyzInit
    /\ ClassifyInit
    /\ InvertibleInit
    /\ PredivideInit
    /\ HandleInit

SpecDisplay == InitDisplay /\ [][DisplayNext]_vars

\* Calls from any threads, in any interleaving.
InitView ==
    /\ ViewInit
    /\ viewCfg \in ViewConfigs
    /\ viewSequential = FALSE
    /\ DisplayIdle
    /\ ChainInit
    /\ BoundaryInit
    /\ XyzInit
    /\ ClassifyInit
    /\ InvertibleInit
    /\ PredivideInit
    /\ HandleInit

SpecView == InitView /\ [][ViewNext]_vars

\* Calls made one after another.
InitViewSeq ==
    /\ ViewInit
    /\ viewCfg \in ViewConfigs
    /\ viewSequential = TRUE
    /\ DisplayIdle
    /\ ChainInit
    /\ BoundaryInit
    /\ XyzInit
    /\ ClassifyInit
    /\ InvertibleInit
    /\ PredivideInit
    /\ HandleInit

SpecViewSeq == InitViewSeq /\ [][ViewNext]_vars

\* The calls of configGetDefaultView with a library that may fail
SpecViewFailure == InitView /\ [][ViewFailureNext]_vars

\* The calls of configGetDefaultView with a library that does not fail, every
\* thread going on with its call whenever it can
SpecViewFair == InitView /\ [][ViewNext]_vars /\ \A t \in Threads : WF_vars(ViewProgress(t))

InitChain ==
    /\ ChainInit
    /\ DisplayIdle
    /\ ViewIdle
    /\ BoundaryInit
    /\ XyzInit
    /\ ClassifyInit
    /\ InvertibleInit
    /\ PredivideInit
    /\ HandleInit

SpecChain == InitChain /\ [][ChainNext]_vars

InitBoundary ==
    /\ BoundaryInit
    /\ DisplayIdle
    /\ ViewIdle
    /\ ChainInit
    /\ XyzInit
    /\ ClassifyInit
    /\ InvertibleInit
    /\ PredivideInit
    /\ HandleInit

SpecBoundary == InitBoundary /\ [][BoundaryNext]_vars

InitXyz ==
    /\ XyzInit
    /\ DisplayIdle
    /\ ViewIdle
    /\ ChainInit
    /\ BoundaryInit
    /\ ClassifyInit
    /\ InvertibleInit
    /\ PredivideInit
    /\ HandleInit

SpecXyz == InitXyz /\ [][XyzNext]_vars

InitClassify ==
    /\ ClassifyInit
    /\ DisplayIdle
    /\ ViewIdle
    /\ ChainInit
    /\ BoundaryInit
    /\ XyzInit
    /\ InvertibleInit
    /\ PredivideInit
    /\ HandleInit

SpecClassify == InitClassify /\ [][ClassifyNext]_vars

InitInvertible ==
    /\ InvertibleInit
    /\ DisplayIdle
    /\ ViewIdle
    /\ ChainInit
    /\ BoundaryInit
    /\ XyzInit
    /\ ClassifyInit
    /\ PredivideInit
    /\ HandleInit

SpecInvertible == InitInvertible /\ [][InvertibleNext]_vars

InitPredivide ==
    /\ PredivideInit
    /\ DisplayIdle
    /\ ViewIdle
    /\ ChainInit
    /\ BoundaryInit
    /\ XyzInit
    /\ ClassifyInit
    /\ InvertibleInit
    /\ HandleInit

SpecPredivide == InitPredivide /\ [][PredivideNext]_vars

InitHandles ==
    /\ HandleInit
    /\ DisplayIdle
    /\ ViewIdle
    /\ ChainInit
    /\ BoundaryInit
    /\ XyzInit
    /\ ClassifyInit
    /\ InvertibleInit
    /\ PredivideInit

SpecHandles == InitHandles /\ [][HandleNext]_vars

----------------------------------------------------------------------------
(* Properties of configGetDefaultDisplay *)

\* A finished call that took the workaround: no override variable, and a
\* configuration with at least one active display.
DisplayWorkaroundDone(t) ==
    /\ dpc[t] = "done"
    /\ ~denv[t]
    /\ Len(dcfg[t]) >= 1

\* C1 as stated: with an active-displays list [d0, d1, ...] and no override
\* variable, the call returns d0, whatever calls came before it, calls with
\* another configuration included.
C1_ReturnsFirstWhateverCameBefore ==
    \A t \in Threads : DisplayWorkaroundDone(t) => dret[t] = dcfg[t][1]

\* C1 amended: a single-entry list returns its entry; a multi-entry list
\* returns the first entry of the list the process-wide cache was filled from,
\* which is d0 when that list starts with d0 (the same configuration, say).
C1_ReturnsFirstOfCachedList ==
    \A t \in Threads :
        DisplayWorkaroundDone(t) =>
            IF Len(dcfg[t]) = 1
            THEN dret[t] = dcfg[t][1]
            ELSE /\ cachedFrom # <<>>
                 /\ dret[t] = cachedFrom[1]
                 /\ (cachedFrom[1] = dcfg[t][1] => dret[t] = dcfg[t][1])

\* A later call with the list "b,a", not in alphabetical order, returned "b".
C1_Witness ==
    \E t \in Threads :
        /\ DisplayWorkaroundDone(t)
        /\ dcfg[t] = <<(<<"b">>), (<<"a">>)>>
        /\ dret[t] = <<"b">>
        /\ displayCalls >= 2

\* C3: with one configuration in the process, the cached string is assigned
\* at most once, the check and the write are made by the owner of the mutex,
\* the cache then holds the first entry for good, and every call on a
\* multi-entry list returns that first entry.
C3_CachedOnceUnderLock ==
    /\ displayWrites <= 1
    /\ \A t \in Threads :
        dpc[t] \in {"check", "assign", "truncate", "unlock"} => displayMutex = t
    /\ Cardinality(displayPool) = 1 =>
        /\ (displayWrites = 1 /\ \A t \in Threads : dpc[t] # "truncate") =>
               \A c \in displayPool : CStr(active_display) = c[1]
        /\ \A t \in Threads :
               (DisplayWorkaroundDone(t) /\ Len(dcfg[t]) >= 2) => dret[t] = dcfg[t][1]

\* One thread has returned the first entry while another, having found the
\* cache filled, is still inside the critical section.
C3_Witness ==
    \E t, u \in Threads :
        /\ t # u
        /\ Cardinality(displayPool) = 1
        /\ DisplayWorkaroundDone(t) /\ Len(dcfg[t]) >= 2 /\ dret[t] = dcfg[t][1]
        /\ dpc[u] = "unlock" /\ displayMutex = u /\ Len(dcfg[u]) >= 2
        /\ displayWrites = 1

----------------------------------------------------------------------------
(* Properties of configGetDefaultView *)

\* Names compared without regard to case, stated apart from stringToLower.
Fold(ch) ==
    CASE ch \in {"F", "f"} -> "f"
      [] ch \in {"S", "s"} -> "s"
      [] ch \in {"X", "x"} -> "x"
      [] ch \in {"Y", "y"} -> "y"
      [] OTHER -> ch

SameName(a, b) == Len(a) = Len(b) /\ \A i \in 1..Len(a) : Fold(a[i]) = Fold(b[i])

KeyOf(display) == CHOOSE k \in DisplayKeys : SameName(k, display)

\* The first entry, in list order, of the active-views list that the display
\* supports; None when it supports none of them.
ExpectedView(cfg, display) ==
    LET ok == {i \in 1..Len(cfg.active) :
                  \E v \in cfg.views[KeyOf(display)] : SameName(cfg.active[i], v)}
    IN IF ok = {} THEN None
       ELSE cfg.active[CHOOSE i \in ok : \A j \in ok : i <= j]

\* A finished call that took the workaround: no override variable, and a
\* configuration with a non-empty active-views list.
ViewWorkaroundDone(t) ==
    /\ vpc[t] = "done"
    /\ ~venv[t]
    /\ viewCfg.active # <<>>

\* C4: with no override variable and a non-empty active-views list, the call
\* returns the first entry of the list that the display supports, names
\* compared without regard to case; when the display supports none it returns
\* what the configuration's own resolution gives.
C4_FirstSupportedActiveView ==
    \A t \in Threads :
        ViewWorkaroundDone(t) =>
            LET e == ExpectedView(viewCfg, vdisplay[t])
            IN IF e # None THEN vret[t] = e
               ELSE vret[t] \in {LibraryDefaultView, NULL}

\* The list is "s,F", display X supports only "f": the call returned "F", the
\* second entry, in the spelling of the list.
C4_Witness ==
    \E t \in Threads :
        /\ ViewWorkaroundDone(t)
        /\ viewCfg.active = <<(<<"s">>), (<<"F">>)>>
        /\ viewCfg.views[<<"x">>] = {<<"f">>}
        /\ vdisplay[t] = <<"X">>
        /\ vret[t] = <<"F">>

\* C5 as stated: for each key the active views are scanned by at most one
\* call, and a call for a key that has a cache entry returns that entry.
C5_ScannedOncePerKey ==
    /\ \A k \in DisplayKeys : viewScans[k] <= 1
    /\ \A t \in Threads :
        (ViewWorkaroundDone(t) /\ default_display_views[KeyOf(vdisplay[t])] # None) =>
            vret[t] = default_display_views[KeyOf(vdisplay[t])]

\* The second half of C5 alone: it fails only by the unlocked lookup of line 354.
C5_ReturnsCachedEntry ==
    \A t \in Threads :
        (ViewWorkaroundDone(t) /\ default_display_views[KeyOf(vdisplay[t])] # None) =>
            vret[t] = default_display_views[KeyOf(vdisplay[t])]

\* C14 as stated: the mutex is released on every path on which it was
\* acquired, so a thread owns it only between its lock and its unlock and
\* no call has left the function with the mutex still locked.
C14_MutexHeldOnlyInside ==
    \A t \in Threads :
        viewMutex = t =>
            vpc[t] \in {"find", "scan", "insert", "unlock_hit", "unlock_found",
                        "unlock_miss"}

\* While the library does not fail, every call that waits for the mutex
\* acquires it.
WaitersAcquire == \A t \in Threads : (vpc[t] = "lock") ~> (vpc[t] = "find")

----------------------------------------------------------------------------
(* Properties of createDisplayProcessor *)

\* The call has appended its display/view transform.
ChainHasDisplayView == cpc \in {"gamma", "allocate", "compile", "delete", "returned"}

\* The call has assembled its whole chain.
ChainAssembled == cpc \in {"allocate", "compile", "delete", "returned"}

DisplayViewsOf(g) == {i \in 1..Len(g) : g[i].kind = "displayview"}

\* C2 as stated: the looks-bypass flag of the display/view transform is true
\* exactly when a look was supplied; with scale 1, exponent 1 and no look the
\* chain is the one display/view transform, its flag false.
C2_BypassIffLookSupplied ==
    /\ ChainHasDisplayView =>
          \A i \in DisplayViewsOf(group) : group[i].looksBypass = (cargs.look # <<>>)
    /\ (ChainAssembled /\ cargs.scale = 1 /\ cargs.exponent = 1 /\ cargs.look = <<>>) =>
          group = <<DisplayViewTransform(cargs.input, FALSE, cargs.view, cargs.display)>>

\* Some name the call refers to is not one the configuration has.
UnknownName(a) ==
    \/ a.input \notin KnownColorSpaces
    \/ a.look # <<>> /\ a.look \notin KnownLooks
    \/ a.view \notin KnownViews
    \/ a.display \notin KnownDisplays

\* C6 as stated: no failure leaves the call as an exception; a call that
\* refers to an unknown name returns NULL; and after a call no handle is live
\* but those returned to callers.
C6_AllOrNothing ==
    /\ cpc # "escaped"
    /\ cpc = "returned" =>
          /\ cret \in {NULL, <<"processor">>}
          /\ UnknownName(cargs) => cret = NULL
          /\ liveHandles = keptHandles

\* C6 without its first part: what holds of the calls that do return.
C6_ReturnedCallsAllOrNothing ==
    cpc = "returned" =>
        /\ cret \in {NULL, <<"processor">>}
        /\ UnknownName(cargs) => cret = NULL
        /\ liveHandles = keptHandles

\* The chain of C7, written from the arguments; the looks-bypass flag of the
\* display/view transform is not part of C7 and is left out.
ExpectedChain(a) ==
    LET afterExposure == IF a.scale # 1 THEN <<"scene_linear">> ELSE a.input
        afterLook == IF a.look # <<>> THEN <<"lookspace">> ELSE afterExposure
    IN (IF a.scale # 1
        THEN << [kind |-> "colorspace", src |-> a.input, dst |-> <<"scene_linear">>],
                [kind |-> "matrix", diagonal |-> <<a.scale, a.scale, a.scale, 1>>] >>
        ELSE <<>>)
       \o (IF a.look # <<>>
           THEN << [kind |-> "look", src |-> afterExposure, dst |-> <<"lookspace">>,
                    looks |-> a.look] >>
           ELSE <<>>)
       \o << [kind |-> "displayview", src |-> afterLook, view |-> a.view,
              display |-> a.display] >>
       \o (IF a.exponent # 1
           THEN << [kind |-> "exponent",
                    value |-> <<a.exponent, a.exponent, a.exponent, 1>>] >>
           ELSE <<>>)

WithoutBypass(g) ==
    [i \in 1..Len(g) |->
        IF g[i].kind = "displayview"
        THEN [kind |-> "displayview", src |-> g[i].src, view |-> g[i].view,
              display |-> g[i].display]
        ELSE g[i]]

\* C7: the assembled chain is, in this order, the conversion to scene linear
\* and the scale matrix iff scale # 1, the look transform from the working
\* space to the look's result space iff a look is given, one display/view
\* transform from the working space those left, and the exponent transform
\* iff exponent # 1.
C7_ChainOrder == ChainAssembled => WithoutBypass(group) = ExpectedChain(cargs)

\* A call with scale 2, the look film and exponent 2 returned a processor
\* compiled from its five transforms.
C7_Witness ==
    /\ cpc = "returned"
    /\ cret = <<"processor">>
    /\ cargs.scale = 2 /\ cargs.look = <<"film">> /\ cargs.exponent = 2
    /\ Len(group) = 5

----------------------------------------------------------------------------
(* Properties of the boundary functions *)

\* C8 as stated: a failure of the library inside a boundary function never
\* leaves it as an exception; it is caught there, reported, and the function
\* returns its sentinel.
C8_NoFailureEscapes ==
    /\ bpc # "escaped"
    /\ (bpc = "returned" /\ bfail # 0) => (bret = bop.sentinel /\ breported)

\* What holds instead: a failure in a library call made inside a try block is
\* caught and the function returns its sentinel.
C8_GuardedFailuresReturnSentinel ==
    /\ (bpc = "returned" /\ bfail # 0) => (bop.calls[bfail].try /\ bret = bop.sentinel)
    /\ bpc = "escaped" => ~bop.calls[bfail].try

----------------------------------------------------------------------------
(* Properties of configGetXYZtoRGB *)

\* C9 as stated: with the scene-linear role, without aces_interchange and
\* with the legacy XYZ role, the matrix returned is the conversion from that
\* XYZ role to scene linear applied to the three basis vectors: the name
\* looked up is the role whose existence was checked.
C9_LegacyRoleMatrix ==
    (/\ xpc = "done"
     /\ hasRole(xcfg, "scene_linear")
     /\ ~hasRole(xcfg, "aces_interchange")
     /\ hasRole(xcfg, CheckedRoleName)
     /\ xcfg.processors = "processor") =>
        /\ xcolorspace = CheckedRoleName
        /\ xyz_to_rgb = Rows(<<applyRGB(ConversionMatrix(CheckedRoleName), <<1, 0, 0>>),
                               applyRGB(ConversionMatrix(CheckedRoleName), <<0, 1, 0>>),
                               applyRGB(ConversionMatrix(CheckedRoleName), <<0, 0, 1>>)>>)

----------------------------------------------------------------------------
(* Properties of colorSpaceIsBuiltin *)

\* C10 as stated: on a colour space whose conversion to scene linear is the
\* identity, the call reports (is_scene_linear, is_srgb) = (true, true).
C10_IdentityIsLinearAndSrgb ==
    (kpc = "done" /\ kcs = IdentityColorSpace) =>
        (is_scene_linear /\ is_srgb)

\* C10, amended: on a colour space whose conversion to scene linear is the
\* identity, all 256 intensities are sampled and the call reports
\* (is_scene_linear, is_srgb) = (true, false).
C10_IdentityIsLinearNotSrgb ==
    (kpc = "done" /\ kcs = IdentityColorSpace) =>
        (is_scene_linear /\ ~is_srgb /\ evaluated = NumSamples)

\* An identity conversion has been classified.
C10_Witness ==
    /\ kpc = "done"
    /\ kcs = IdentityColorSpace
    /\ evaluated = NumSamples
    /\ is_scene_linear

\* The sRGB flag is the one the sRGB decoding keeps: a colour space whose
\* conversion is that decoding is reported (false, true).
SrgbIsSrgbNotLinear ==
    (kpc = "done" /\ kcs = SrgbColorSpace) =>
        (~is_scene_linear /\ is_srgb /\ evaluated = NumSamples)

----------------------------------------------------------------------------
(* Properties of colorSpaceIsInvertible *)

\* C11: the call returns false for every colour space whose family is
\* exactly "rrt" or "display"; for any other family it returns true, for a
\* data colour space and for one that is not, with a transform to the
\* reference space and without one.
C11_InvertibleUnlessRrtOrDisplay ==
    ipc = "done" =>
        /\ CStr(ics.family) \in {Chars("rrt"), Chars("display")} => iret = 0
        /\ CStr(ics.family) \notin {Chars("rrt"), Chars("display")} => iret = 1

\* A colour space of another family, not data and without a transform to
\* the reference space, has been reported invertible.
C11_Witness ==
    /\ ipc = "done"
    /\ CStr(ics.family) = Chars("rrtx")
    /\ ~ics.isData
    /\ ~ics.toReference
    /\ iret = 1

----------------------------------------------------------------------------
(* Properties of processorApplyRGBA_predivide *)

\* The colour of px times the factor f, with the alpha of px
TimesAlpha(px, f) == <<FMul(px[1], f), FMul(px[2], f), FMul(px[3], f), px[4]>>

\* C12 as stated: for alpha exactly 0 or 1 the result is the plain
\* T(r, g, b, a); otherwise the colour is that of T(r/a, g/a, b/a, a) times
\* the alpha of the input, and the alpha is the one T produced.
C12_PredivideByDivision ==
    apc = "done" =>
        IF pixel_in[4] = Zero \/ pixel_in[4] = One
        THEN pixel = applyRGBA(aprocessor, pixel_in)
        ELSE pixel = TimesAlpha(applyRGBA(aprocessor,
                                          <<FDiv(pixel_in[1], pixel_in[4]),
                                            FDiv(pixel_in[2], pixel_in[4]),
                                            FDiv(pixel_in[3], pixel_in[4]),
                                            pixel_in[4]>>),
                                pixel_in[4])

\* C12, amended: for alpha exactly 0 or 1 the result is the plain
\* T(r, g, b, a); otherwise, with q the single precision reciprocal 1 / a,
\* the colour is that of T(r * q, g * q, b * q, a) times the alpha of the
\* input, and the alpha is the one T produced.
C12_PredivideByReciprocal ==
    apc = "done" =>
        IF pixel_in[4] = Zero \/ pixel_in[4] = One
        THEN pixel = applyRGBA(aprocessor, pixel_in)
        ELSE pixel = TimesAlpha(applyRGBA(aprocessor,
                                          TimesAlpha(pixel_in, FDiv(One, pixel_in[4]))),
                                pixel_in[4])

\* A pixel of another alpha has gone through a processor that changes alpha.
C12_Witness ==
    /\ apc = "done"
    /\ pixel_in[4] = FDiv(FromInt(3), FromInt(10))
    /\ aprocessor = "half alpha"
    /\ pixel[4] # pixel_in[4]
    /\ pixel[1] # Zero

----------------------------------------------------------------------------
(* Properties of the handle-returning operations *)

\* C15: a call that returns has allocated one handle; it returns it when the
\* library gave an object, and has freed it once and returns NULL when the
\* library gave a null object or threw inside the try block.  Between calls
\* the handles allocated and not freed are, kind by kind, as many as the
\* non-NULL results not yet released.
C15_HandlesBalanced ==
    /\ hpc = "done" =>
           /\ hallocs = 1
           /\ hlibrary = "object" => (hret = "handle" /\ hfrees = 0)
           /\ hlibrary \in {"null", "throw"} => (hret = "NULL" /\ hfrees = 1)
    /\ hpc \in {"idle", "done", "escaped"} =>
           \A k \in HandleKinds : handles[k] = held[k]

\* A call has failed and returned NULL while the caller holds an earlier
\* result of the same kind.
C15_Witness ==
    /\ hpc = "done"
    /\ hret = "NULL"
    /\ hfrees = 1
    /\ held[hop.kind] = 1
    /\ handles[hop.kind] = 1

\* The indices at which an off-axis channel of a pure-colour probe exceeds
\* 1e-5 in magnitude.
OffAxisExceeds(cs) ==
    {i \in 0..(NumSamples - 1) :
        LET p == Probes(cs, SampleValues[i])
        IN  \E x \in {p.cR[2], p.cR[3], p.cG[1], p.cG[3], p.cB[1], p.cB[2]} :
                FLess(CrosstalkLimit, fabsf(x))}

FirstOf(indices) == CHOOSE i \in indices : \A j \in indices : i <= j

\* C13, the samples: in a call on a colour space with crosstalk at some
\* index, no sample of an index greater than the first such index is
\* evaluated, and the result is (false, false); both flags are true before
\* the first sample.
C13_Samples ==
    /\ (kpc = "loop" /\ evaluated = 0) => (is_scene_linear /\ is_srgb)
    /\ (kpc \in {"loop", "done"} /\ kcs.convertible /\ OffAxisExceeds(kcs) # {}) =>
           /\ ki <= FirstOf(OffAxisExceeds(kcs))
           /\ evaluated <= FirstOf(OffAxisExceeds(kcs)) + 1
           /\ kpc = "done" => (~is_scene_linear /\ ~is_srgb)

\* C13, the flags: a sample never sets a flag that is cleared.
C13_Flags ==
    (kpc = "loop" /\ evaluated > 0) =>
        /\ is_scene_linear' => is_scene_linear
        /\ is_srgb' => is_srgb

\* C13: crosstalk at a sampled intensity gives (false, false) and ends the
\* sampling at the first such intensity; each flag is true before the first
\* sample and, once cleared by a sample, is not set again by a later one.
C13_StopsAtCrosstalk == []C13_Samples /\ [][C13_Flags]_vars

\* A call has stopped at a crosstalk that begins after the first samples.
C13_Witness ==
    /\ kpc = "done"
    /\ kcs.convertible
    /\ OffAxisExceeds(kcs) # {}
    /\ FirstOf(OffAxisExceeds(kcs)) > 0
    /\ evaluated = FirstOf(OffAxisExceeds(kcs)) + 1
    /\ ~is_scene_linear
    /\ ~is_srgb

====
